---- MODULE Spec2Model ----
(***************************************************************************)
(* TruthCheck claim scoring pipeline.                                      *)
(*                                                                         *)
(* ScoreSpec  : Scorer.scoreClaim (src/src/pipeline/scorer.js), both the   *)
(*              four-source revision ("v1") and the three-source revision  *)
(*              ("v2") kept in the same file, with the cache lookup and    *)
(*              the concurrently running evidence adapters.                *)
(* BatchSpec  : the content script's batch loop (src/unnamed/part_008,     *)
(*              src/unnamed/part_010).                                     *)
(* RetrySpec  : the retry loops of src/src/utils/retry.js and              *)
(*              src/src/routers/ai.js.                                     *)
(* BreakerSpec: Retry.createCircuitBreaker.                                *)
(* ExtractSpec: ClaimExtractor.extractClaims, its three revisions          *)
(*              (src/src/pipeline/claimExtractor.js, src/unnamed/part_004).*)
(* OverrideSpec: OverrideEngine.checkOverride (src/unnamed/part_003).      *)
(* FactCheckSpec: FactCheckerRouter.checkClaim (src/unnamed/part_002,      *)
(*              src/src/routers/factcheckers.js) and scoreFromFactCheckers.*)
(* ConcurrentSpec: scoreClaim called by two callers for one claim, with    *)
(*              Cache.get and Cache.set (src/unnamed/part_007).            *)
(* NormalizeSpec: ClaimNormalizer.normalize                                 *)
(*              (src/src/pipeline/normalizer.js).                          *)
(* QueueSpec, FairQueueSpec: AIClient.queueRequest, processQueue and       *)
(*              makeRequest (src/src/routers/ai.js).                       *)
(* KeySpec    : scoreClaim and the keys Cache.hashString gives its entries *)
(*              (src/unnamed/part_007).                                    *)
(* CandidateSpec: ClaimExtractor.scoreClaimCandidate on a sentence without  *)
(*              and with a percentage (src/unnamed/part_004).              *)
(*                                                                         *)
(* Numbers: weights are in hundredths, confidence levels in tenths.  A     *)
(* component score is the pair (score, half) standing for score + 0.5 when *)
(* half is set, because the scores that come out of a JSON response of the *)
(* assessment service are arbitrary JSON numbers.                          *)
(***************************************************************************)
EXTENDS Integers, Sequences, FiniteSets, TLC

VARIABLES
  scorerVersion,  \* which revision of the Scorer class is loaded
  enabled,        \* this.enabled: the set of components whose flag is true
  scorePc,        \* position of the running scoreClaim call
  adapter,        \* per component: state of the promise of scoreFromX
  scores,         \* the local object `scores` of scoreClaim
  result,         \* what scoreClaim returned (NoResult until then)
  fromCache,      \* the returned result came from cache.get
  rejectCause,    \* why scoreClaim rejected
  scoreCache,     \* the cache entry under the claim's key
  calls,          \* number of scoreClaim calls started for the claim
  adapterThrew,   \* history: components whose try block threw in this call
  batchVariant,   \* which batch loop runs: startProcessing or processClaimsInBatches
  overrideOn,     \* CONFIG.features.enable_override_engine && hasApiKeys.ai
  numClaims,      \* length of the claim array handed to the batch loop
  batchI,         \* the loop variable i
  batchPc,        \* position of the batch loop
  worker,         \* per claim: position of the async callback of batch.map
  workerScores,   \* per claim: the callback's local `scores`
  outcome,        \* per claim: the value the callback's promise fulfilled with
  scoredResults,  \* records handed on (scoredResults.push / renderClaimHighlight)
  failed,         \* history: claims for which an awaited call rejected
  retryLoop,      \* which retry loop runs
  retryOptions,   \* the options the loop was called with
  retryPc,        \* position of the retry loop
  attempt,        \* the loop variable attempt
  invocations,    \* history: how often the operation was invoked
  failures,       \* history: the errors the operation threw, in order
  waits,          \* history: the delays slept between invocations, in ms
  breakerArgs,    \* threshold and timeout given to createCircuitBreaker
  breakerState,   \* the closure variable `state`
  breakerFailures,\* the closure variable `failures`
  lastFailureTime,\* the closure variable lastFailureTime
  clock,          \* Date.now(), counted in units of 30 s
  breakerCalls,   \* per caller: position of its call of the breaker and its `now`
  breakerStarted, \* history: number of calls of the breaker so far
  consecutive,    \* history: failed calls since the last successful one
  lastFailureAt,  \* history: clock value when a call last failed
  openedAfter,    \* history: value of consecutive when closed last became open
  halfOpenGap,    \* history: clock - lastFailureAt when open last became half-open
  extractorRev,   \* which revision of the ClaimExtractor class is loaded
  extractMethod,  \* CONFIG.claim_extraction.method
  article,        \* the text given to extractClaims, as its sentences
  documentType,   \* what typeof says of the argument of extractClaims
  extractPc,      \* position of the running extractClaims call
  heuristicClaims,\* the local heuristicClaims of extractClaims
  aiClaims,       \* what extractClaimsAI resolved with
  aiOutcome,      \* history: how the AI extraction went
  extracted       \* what extractClaims resolved with

\* OverrideEngine.checkOverride
VARIABLES
  overridePc,       \* position of the running checkOverride call
  exactMatches,     \* what findExactMatches resolved with
  matchIndex,       \* position of the for loop over exactMatches
  validations,      \* history: what validateOverride resolved with, per match
  validOverrides,   \* the local validOverrides
  overrideReturned  \* what checkOverride resolved with

\* FactCheckerRouter.checkClaim and Scorer.scoreFromFactCheckers
VARIABLES
  factRouter,    \* which revision of the router is loaded
  factSources,   \* this.sources: the enabled services, sorted by priority
  factPc,        \* position of the running checkClaim call
  factIndex,     \* position of the for loop over this.sources
  factPending,   \* the result of querySource while cache.set is awaited
  factTried,   \* history: per service tried, what its cache lookup or query gave
  factReturned,  \* what checkClaim resolved with
  factScore      \* scores.fact_checker

\* Scorer.scoreClaim called by several callers for one claim
VARIABLES
  cacheEntry,    \* the IndexedDB entry under the claim's cache key
  callerPc,      \* per caller: position of its scoreClaim call
  callerResult,  \* per caller: the result it computed or returned
  written        \* history: the results cache.set stored

\* ClaimNormalizer.normalize: where the call stands, its claim text, the cache entry of that text, the heuristic normalization and the returned NormalizedClaim
VARIABLES
  normalizePc,
  normalizeArg,
  normalizeCache,
  heuristicResult,
  normalized

\* ClaimExtractor.scoreClaimCandidate on a sentence without and with a percentage: where the comparison stands, what analyzeStructure and the patterns see of the sentence, and the two confidences returned
VARIABLES
  candidatePc,
  features,
  confidenceBefore,
  confidenceAfter

\* AIClient's request queue: the queue, the processing flag, what became of each request and its options.retries, and for the processQueue call each queueRequest makes: where it stands, the request it shifted and the attempt of makeRequest
VARIABLES
  requestQueue,
  processing,
  requestState,
  requestRetries,
  loopPc,
  loopRequest,
  loopAttempt

\* Scorer.scoreClaim and the keys of its cache entries: where the call stands, the original claim text it was called with, the text the entry it found was computed for, and the entries of the cache as pairs of key and text
VARIABLES
  keyPc,
  keyText,
  keyFound,
  keyEntries

scoreVars == <<scorerVersion, enabled, scorePc, adapter, scores, result,
               fromCache, rejectCause, scoreCache, calls, adapterThrew>>

batchVars == <<batchVariant, overrideOn, numClaims, batchI, batchPc, worker,
               workerScores, outcome, scoredResults, failed>>

retryVars == <<retryLoop, retryOptions, retryPc, attempt, invocations, failures, waits>>

breakerVars == <<breakerArgs, breakerState, breakerFailures, lastFailureTime, clock,
                 breakerCalls, breakerStarted, consecutive, lastFailureAt,
                 openedAfter, halfOpenGap>>

extractVars == <<extractorRev, extractMethod, article, documentType, extractPc, heuristicClaims,
                 aiClaims, aiOutcome, extracted>>

overrideVars == <<overridePc, exactMatches, matchIndex, validations, validOverrides, overrideReturned>>

factCheckVars == <<factRouter, factSources, factPc, factIndex, factPending, factTried, factReturned, factScore>>

concurrentVars == <<cacheEntry, callerPc, callerResult, written>>

normalizeVars == <<normalizePc, normalizeArg, normalizeCache, heuristicResult, normalized>>

candidateVars == <<candidatePc, features, confidenceBefore, confidenceAfter>>

queueVars == <<requestQueue, processing, requestState, requestRetries, loopPc, loopRequest, loopAttempt>>

keyVars == <<keyPc, keyText, keyFound, keyEntries>>

\* what the actions of one part leave alone
nonScoreVars == <<batchVars, retryVars, breakerVars, extractVars, overrideVars, factCheckVars, concurrentVars, normalizeVars, candidateVars, queueVars, keyVars>>

nonBatchVars == <<scoreVars, retryVars, breakerVars, extractVars, overrideVars, factCheckVars, concurrentVars, normalizeVars, candidateVars, queueVars, keyVars>>

nonRetryVars == <<scoreVars, batchVars, breakerVars, extractVars, overrideVars, factCheckVars, concurrentVars, normalizeVars, candidateVars, queueVars, keyVars>>

nonBreakerVars == <<scoreVars, batchVars, retryVars, extractVars, overrideVars, factCheckVars, concurrentVars, normalizeVars, candidateVars, queueVars, keyVars>>

nonExtractVars == <<scoreVars, batchVars, retryVars, breakerVars, overrideVars, factCheckVars, concurrentVars, normalizeVars, candidateVars, queueVars, keyVars>>

nonOverrideVars == <<scoreVars, batchVars, retryVars, breakerVars, extractVars, factCheckVars, concurrentVars, normalizeVars, candidateVars, queueVars, keyVars>>

nonFactCheckVars == <<scoreVars, batchVars, retryVars, breakerVars, extractVars, overrideVars, concurrentVars, normalizeVars, candidateVars, queueVars, keyVars>>

nonConcurrentVars == <<scoreVars, batchVars, retryVars, breakerVars, extractVars, overrideVars, factCheckVars, normalizeVars, candidateVars, queueVars, keyVars>>

nonNormalizeVars == <<scoreVars, batchVars, retryVars, breakerVars, extractVars, overrideVars, factCheckVars, concurrentVars, candidateVars, queueVars, keyVars>>

nonCandidateVars == <<scoreVars, batchVars, retryVars, breakerVars, extractVars, overrideVars, factCheckVars, concurrentVars, normalizeVars, queueVars, keyVars>>

nonQueueVars == <<scoreVars, batchVars, retryVars, breakerVars, extractVars, overrideVars, factCheckVars, concurrentVars, normalizeVars, candidateVars, keyVars>>

nonKeyVars == <<scoreVars, batchVars, retryVars, breakerVars, extractVars, overrideVars, factCheckVars, concurrentVars, normalizeVars, candidateVars, queueVars>>

vars == <<scoreVars, batchVars, retryVars, breakerVars, extractVars, overrideVars, factCheckVars, concurrentVars, normalizeVars, candidateVars, queueVars, keyVars>>

----------------------------------------------------------------------------
(* Bounds *)

MaxCalls == 2

\* the longest claim array handed to a batch loop
MaxClaims == 6

\* the most calls of one circuit breaker
MaxBreakerCalls == 7

\* the last clock value
MaxTime == 3

\* the most callers that use one circuit breaker at the same time
MaxCallers == 2

\* the most sentences of an article
MaxSentences == 2

\* the most matches findExactMatches resolves with
MaxMatches == 3

\* the most requests handed to the AI client's queue, and the most retries a
\* request's options ask for
MaxRequests == 3

MaxQueueRetries == 1

\* the most code units of a short claim text, and the most cache entries
MaxTextLength == 2

MaxEntries == 2

----------------------------------------------------------------------------
(* Scorer: configuration *)

Versions == {"v1", "v2"}

Components == {"fact_checker", "source_credibility", "scholarly", "coherence", "ai"}

CompsOf(v) ==
  IF v = "v1" THEN {"fact_checker", "source_credibility", "scholarly", "coherence"}
              ELSE {"ai", "source_credibility", "scholarly"}

\* this.weights, in hundredths
weights(v, c) ==
  CASE c = "fact_checker"       -> 35
    [] c = "source_credibility" -> 20
    [] c = "scholarly"          -> 30
    [] c = "coherence"          -> 15
    [] c = "ai"                 -> 40
    [] OTHER                    -> 0

Confidences == {"high", "medium", "low"}

\* a SourceScore as the adapters write it into `scores`
SourceScore(s, h, n, conf, err) ==
  [score |-> s, half |-> h, numeric |-> n, confidence |-> conf, error |-> err]

Reported(s, conf) == SourceScore(s, FALSE, TRUE, conf, FALSE)

\* the entry every catch block of scoreFromX writes
NeutralError == SourceScore(5, FALSE, TRUE, "low", TRUE)

\* an exception that leaves scoreFromX: its promise rejects, nothing is written
Uncaught == SourceScore(0, FALSE, FALSE, "undefined", TRUE)

\* twice the numeric value of a component score
Twice(d) == 2 * d.score + (IF d.half THEN 1 ELSE 0)

Put(obj, k, d) == [c \in (DOMAIN obj) \cup {k} |-> IF c = k THEN d ELSE obj[c]]

EmptyScores == [c \in {} |-> NeutralError]

----------------------------------------------------------------------------
(* Scorer: aggregation *)

RECURSIVE SumWeights(_, _)
SumWeights(v, S) ==
  IF S = {} THEN 0
  ELSE LET c == CHOOSE x \in S : TRUE
       IN weights(v, c) + SumWeights(v, S \ {c})

RECURSIVE SumWeighted2(_, _, _)
SumWeighted2(v, sc, S) ==
  IF S = {} THEN 0
  ELSE LET c == CHOOSE x \in S : TRUE
       IN Twice(sc[c]) * weights(v, c) + SumWeighted2(v, sc, S \ {c})

\* the entries with typeof data.score === 'number'
NumericKeys(sc) == {c \in DOMAIN sc : sc[c].numeric}

\* variant: the weighted sum is divided by the configured total of 1.00
\* instead of the total weight of the sources that reported
calculateFinalScore_Unnormalized(v, sc) ==
  LET ws2 == SumWeighted2(v, sc, NumericKeys(sc))
      tw  == SumWeights(v, NumericKeys(sc))
  IN IF tw = 0 THEN 5 ELSE (ws2 + 100) \div 200

\* variant: totalWeight also counts the entries without a numeric score
calculateFinalScore_CountsAll(v, sc) ==
  LET ws2 == SumWeighted2(v, sc, NumericKeys(sc))
      tw  == SumWeights(v, DOMAIN sc)
  IN IF tw = 0 THEN 5 ELSE (ws2 + tw) \div (2 * tw)

\* Math.round(x) = floor(x + 1/2), here for x = ws2 / (2 * tw)
calculateFinalScore(v, sc) ==
  LET ws2 == SumWeighted2(v, sc, NumericKeys(sc))
      tw  == SumWeights(v, NumericKeys(sc))
  IN IF tw = 0 THEN 5 ELSE (ws2 + tw) \div (2 * tw)

confidenceValue(conf) ==
  CASE conf = "high"   -> 10
    [] conf = "medium" -> 6
    [] conf = "low"    -> 3
    [] OTHER           -> 5

RECURSIVE SumConfidence(_, _)
SumConfidence(sc, S) ==
  IF S = {} THEN 0
  ELSE LET c == CHOOSE x \in S : TRUE
       IN confidenceValue(sc[c].confidence) + SumConfidence(sc, S \ {c})

calculateOverallConfidence(sc) ==
  LET keys == {c \in DOMAIN sc : sc[c].confidence # "undefined"}
      n    == Cardinality(keys)
      sum  == SumConfidence(sc, keys)
  IN IF n = 0 THEN "low"
     ELSE IF sum >= 8 * n THEN "high"
     ELSE IF sum >= 5 * n THEN "medium"
     ELSE "low"

----------------------------------------------------------------------------
(* Evidence adapters: what the routers hand back and what scoreFromX writes *)

Absent == -1

\* verdict values the fact-checker router can return (verdictMap[x] || 5)
FactVerdicts == {1, 2, 3, 4, 5, 8, 10}

FactCheckResults ==
  [kind : {"hit"}, verdict : FactVerdicts] \cup
  {[kind |-> "none", verdict |-> Absent], [kind |-> "throw", verdict |-> Absent]}

FactCheckThrows(r) == r.kind = "throw"

scoreFromFactCheckers(r) ==
  IF FactCheckThrows(r) THEN NeutralError
  ELSE IF r.kind = "hit" THEN Reported(r.verdict, "high")
  ELSE Reported(5, "low")

\* NewsGuard reports its score out of 100 (sampled), Media Bias/Fact Check
\* is mapped by mapMediaBiasFactualReporting
MaxNewsGuardScore == 100
NewsGuardScores == {0, 60, MaxNewsGuardScore}
FactualReporting == {9, 5, 2}

calculateCredibilityScore(ng, mb) ==
  LET n   == (IF ng # Absent THEN 1 ELSE 0) + (IF mb # Absent THEN 1 ELSE 0)
      sum == (IF ng # Absent THEN ng ELSE 0) + (IF mb # Absent THEN mb ELSE 0)
  IN IF n = 0
     THEN [score |-> 5, confidence |-> "low"]
     ELSE [score |-> (2 * sum + n) \div (2 * n),
           confidence |-> IF n > 1 THEN "high" ELSE "medium"]

\* checkDomain: the providers that answered, or a rejection (cache failure)
CheckDomainResults ==
  [kind : {"ok"}, ng : NewsGuardScores \cup {Absent}, mb : FactualReporting \cup {Absent}]
  \cup {[kind |-> "throw", ng |-> Absent, mb |-> Absent]}

CredibilityThrows(r) == r.kind = "throw"

\* variant: no catch block around checkDomain
scoreFromCredibility_NoCatch(r) ==
  IF CredibilityThrows(r) THEN Uncaught
  ELSE LET overall == calculateCredibilityScore(r.ng, r.mb)
       IN Reported(overall.score, overall.confidence)

scoreFromCredibility(r) ==
  IF CredibilityThrows(r) THEN NeutralError
  ELSE LET overall == calculateCredibilityScore(r.ng, r.mb)
       IN Reported(overall.score, overall.confidence)

\* number of results of scholar.searchClaim (the thresholds of scoreScholarlyResults)
ResultCounts == {0, 1, 3, 5}

\* what the assessment service answers to scoreEvidence: data.score and
\* data.confidence are copied unchecked, so the score can be fractional or missing
AiResponses ==
  [kind : {"ok"}, score : {2, 10}, half : {FALSE}, numeric : {TRUE}, confidence : Confidences]
  \cup [kind : {"ok"}, score : {7}, half : {TRUE}, numeric : {TRUE}, confidence : Confidences]
  \cup {[kind |-> "ok", score |-> 0, half |-> FALSE, numeric |-> FALSE, confidence |-> "undefined"]}
  \cup {[kind |-> k, score |-> 0, half |-> FALSE, numeric |-> FALSE, confidence |-> "undefined"] :
          k \in {"fail", "unavailable"}}

\* inputs of the closed-form fallback: how many results passed the similarity
\* test and the rounded average of similarity * 10 * recency over them
FallbackInputs == [valid : {0, 1, 3}, average : {1, 8}]

Assessment(k, s, h, n, conf) ==
  [kind |-> k, score |-> s, half |-> h, numeric |-> n, confidence |-> conf]

Thrown == Assessment("throw", 0, FALSE, FALSE, "undefined")

\* v1 reads the undeclared names normalizedClaim and similarity as soon as
\* there is a search result; v2 computes the average
fallbackEvidenceAssessment(v, n, fb) ==
  IF v = "v1"
  THEN IF n = 0 THEN Assessment("ok", 5, FALSE, TRUE, "medium") ELSE Thrown
  ELSE IF fb.valid = 0 \/ n = 0
       THEN Assessment("ok", 5, FALSE, TRUE, "medium")
       ELSE Assessment("ok", fb.average, FALSE, TRUE,
                       IF fb.valid > 2 THEN "high" ELSE "medium")

assessScholarlyEvidence(v, n, ai, fb) ==
  IF ai.kind = "ok"
  THEN Assessment("ok", ai.score, ai.half, ai.numeric, ai.confidence)
  ELSE fallbackEvidenceAssessment(v, n, fb)

scoreScholarlyResults(n) ==
  IF n = 0 THEN [score |-> 5, confidence |-> "low"]
  ELSE [score |-> IF n >= 5 THEN 8 ELSE IF n >= 3 THEN 7 ELSE 6,
        confidence |-> IF n >= 3 THEN "high" ELSE "medium"]

ScholarlyThrows(v, n, ai, fb) ==
  v = "v1" /\ assessScholarlyEvidence(v, n, ai, fb).kind = "throw"

scoreFromScholarly(v, n, ai, fb) ==
  IF v = "v1"
  THEN LET a == assessScholarlyEvidence(v, n, ai, fb)
       IN IF ScholarlyThrows(v, n, ai, fb) THEN NeutralError
          ELSE SourceScore(a.score, a.half, a.numeric, a.confidence, FALSE)
  ELSE LET s == scoreScholarlyResults(n)
       IN Reported(s.score, s.confidence)

\* getAIClient() throws when no client is loaded
AIThrows(n, ai, fb) ==
  ai.kind = "unavailable" \/ assessScholarlyEvidence("v2", n, ai, fb).kind = "throw"

scoreFromAI(n, ai, fb) ==
  IF AIThrows(n, ai, fb) THEN NeutralError
  ELSE LET a == assessScholarlyEvidence("v2", n, ai, fb)
       IN  SourceScore(a.score, a.half, a.numeric, a.confidence, FALSE)

\* analyzeCoherence: the parsed response of the analysis service, or the
\* pattern fallback with its number of red flags; "throw" is an exception
\* raised outside analyzeCoherence's own try block
CoherenceResponses ==
  [kind : {"ok"}, score : {2, 10}, half : {FALSE}, flags : {0}]
  \cup {[kind |-> "ok", score |-> 7, half |-> TRUE, flags |-> 0]}
  \cup {[kind |-> "noscore", score |-> 0, half |-> FALSE, flags |-> 0]}
  \cup [kind : {"fail"}, score : {0}, half : {FALSE}, flags : 0..3]
  \cup {[kind |-> "throw", score |-> 0, half |-> FALSE, flags |-> 0]}

fallbackCoherenceAnalysis(flags) ==
  IF 10 - flags * 2 > 1 THEN 10 - flags * 2 ELSE 1

CoherenceThrows(r) == r.kind = "throw"

scoreFromCoherence(r) ==
  CASE CoherenceThrows(r) -> NeutralError
    [] r.kind = "ok"      -> SourceScore(r.score, r.half, TRUE, "medium", FALSE)
    [] r.kind = "noscore" -> SourceScore(0, FALSE, FALSE, "medium", FALSE)
    [] OTHER              -> Reported(fallbackCoherenceAnalysis(r.flags), "medium")

\* the components whose adapter awaits a fetch of the assessment server that
\* carries no abort signal (AIServerClient.searchEvidence / scoreEvidence / query)
NoTimeoutComps(v) == IF v = "v1" THEN {"scholarly", "coherence"} ELSE {"ai"}

----------------------------------------------------------------------------
(* Scorer.scoreClaim *)

NoResult == [final |-> Absent, confidence |-> "none", components |-> EmptyScores]

AdaptersOff == [c \in Components |-> "off"]

\* the content script before a batch loop was entered
NoOverride == [score |-> Absent, relationship |-> "none"]

NoScores == [final |-> Absent, confidence |-> "none"]

NoRecord == [claim |-> 0, scores |-> NoScores, override |-> NoOverride, finalScore |-> Absent]

Claims == 1..MaxClaims

BatchIdle ==
  /\ batchVariant = "startProcessing"
  /\ overrideOn = FALSE
  /\ numClaims = 0
  /\ batchI = 0
  /\ batchPc = "done"
  /\ worker = [k \in Claims |-> "idle"]
  /\ workerScores = [k \in Claims |-> NoScores]
  /\ outcome = [k \in Claims |-> NoRecord]
  /\ scoredResults = <<>>
  /\ failed = {}

\* no retry loop running
RetryIdle ==
  /\ retryLoop = "withRetry"
  /\ retryOptions = [maxRetries |-> 0, baseDelay |-> 0, maxDelay |-> 0]
  /\ retryPc = "returned"
  /\ attempt = 0
  /\ invocations = 0
  /\ failures = <<>>
  /\ waits = <<>>

\* no circuit breaker created
Callers == 1..MaxCallers

NoCall == [pc |-> "idle", now |-> 0, trial |-> FALSE]

BreakerIdle ==
  /\ breakerArgs = [threshold |-> 0, timeout |-> 0]
  /\ breakerState = "closed"
  /\ breakerFailures = 0
  /\ lastFailureTime = 0
  /\ clock = 0
  /\ breakerCalls = [c \in Callers |-> NoCall]
  /\ breakerStarted = 0
  /\ consecutive = 0
  /\ lastFailureAt = Absent
  /\ openedAfter = Absent
  /\ halfOpenGap = Absent

\* a constructed ClaimExtractor on which extractClaims is not running
ExtractIdle ==
  /\ extractorRev = "v2"
  /\ extractMethod = "hybrid"
  /\ article = <<>>
  /\ documentType = "string"
  /\ extractPc = "idle"
  /\ heuristicClaims = <<>>
  /\ aiClaims = <<>>
  /\ aiOutcome = "none"
  /\ extracted = <<>>

\* a constructed OverrideEngine on which checkOverride is not running
OverrideIdle ==
  /\ overridePc = "idle"
  /\ exactMatches = <<>>
  /\ matchIndex = 0
  /\ validations = <<>>
  /\ validOverrides = <<>>
  /\ overrideReturned = NoOverride

\* checkClaim's null
NoFactCheck == [kind |-> "none", verdict |-> Absent, source |-> "none"]

\* a constructed FactCheckerRouter on which checkClaim is not running
FactCheckIdle ==
  /\ factRouter = "services"
  /\ factSources = <<>>
  /\ factPc = "idle"
  /\ factIndex = 0
  /\ factPending = NoFactCheck
  /\ factTried = <<>>
  /\ factReturned = NoFactCheck
  /\ factScore = SourceScore(0, FALSE, FALSE, "undefined", FALSE)

\* the cache entry that does not exist
NoEntry == [value |-> NoScores, expired |-> FALSE]

\* no caller has called scoreClaim and the claim has no cache entry
ConcurrentIdle ==
  /\ cacheEntry = NoEntry
  /\ callerPc = [c \in Callers |-> "idle"]
  /\ callerResult = [c \in Callers |-> NoScores]
  /\ written = {}

\* no NormalizedClaim: normalize has not returned, the cache holds no entry
NoNormalized ==
  [original_claim |-> <<>>, normalized_claim |-> <<>>, entities |-> 0,
   confidence |-> 0, ai_generated |-> FALSE]

\* a constructed ClaimNormalizer on which normalize is not running
NormalizeIdle ==
  /\ normalizePc = "idle"
  /\ normalizeArg = <<>>
  /\ normalizeCache = NoNormalized
  /\ heuristicResult = NoNormalized
  /\ normalized = NoNormalized

\* no sentence
NoFeatures ==
  [length |-> 0, wordCount |-> 0, comma |-> FALSE, digits |-> FALSE, preposition |-> FALSE,
   lowercaseStart |-> FALSE, percentage |-> FALSE]

\* no sentence has been handed to scoreClaimCandidate
CandidateIdle ==
  /\ candidatePc = "idle"
  /\ features = NoFeatures
  /\ confidenceBefore = 0
  /\ confidenceAfter = 0

\* the requests callers hand to AIClient.queueRequest
Requests == 1..MaxRequests

\* a constructed AIClient: empty queue, not processing
QueueIdle ==
  /\ requestQueue = <<>>
  /\ processing = FALSE
  /\ requestState = [r \in Requests |-> "new"]
  /\ requestRetries = [r \in Requests |-> 0]
  /\ loopPc = [r \in Requests |-> "notCalled"]
  /\ loopRequest = [r \in Requests |-> 0]
  /\ loopAttempt = [r \in Requests |-> 0]

\* no claim text (the scorer is not looking up anything)
NoClaimText == <<0>>

\* a constructed Scorer and an empty cache
KeyIdle ==
  /\ keyPc = "idle"
  /\ keyText = NoClaimText
  /\ keyFound = NoClaimText
  /\ keyEntries = {}

\* a constructed Scorer on which scoreClaim is not running
ScoreIdle ==
  /\ scorerVersion = "v2"
  /\ enabled = CompsOf("v2")
  /\ scorePc = "idle"
  /\ adapter = AdaptersOff
  /\ scores = EmptyScores
  /\ result = NoResult
  /\ fromCache = FALSE
  /\ rejectCause = "none"
  /\ scoreCache = NoResult
  /\ calls = 0
  /\ adapterThrew = {}

\* every part but the named one is idle
IdleExcept(part) ==
  /\ IF part = "score" THEN TRUE ELSE ScoreIdle
  /\ IF part = "batch" THEN TRUE ELSE BatchIdle
  /\ IF part = "retry" THEN TRUE ELSE RetryIdle
  /\ IF part = "breaker" THEN TRUE ELSE BreakerIdle
  /\ IF part = "extract" THEN TRUE ELSE ExtractIdle
  /\ IF part = "override" THEN TRUE ELSE OverrideIdle
  /\ IF part = "factCheck" THEN TRUE ELSE FactCheckIdle
  /\ IF part = "concurrent" THEN TRUE ELSE ConcurrentIdle
  /\ IF part = "normalize" THEN TRUE ELSE NormalizeIdle
  /\ IF part = "candidate" THEN TRUE ELSE CandidateIdle
  /\ IF part = "queue" THEN TRUE ELSE QueueIdle
  /\ IF part = "key" THEN TRUE ELSE KeyIdle

ScoreInit ==
  /\ IdleExcept("score")
  /\ scorerVersion \in Versions
  /\ enabled \in SUBSET CompsOf(scorerVersion)
  /\ scorePc = "idle"
  /\ adapter = AdaptersOff
  /\ scores = EmptyScores
  /\ result = NoResult
  /\ fromCache = FALSE
  /\ rejectCause = "none"
  /\ scoreCache = NoResult
  /\ calls = 0
  /\ adapterThrew = {}

\* a caller invokes scoreClaim(normalizedClaim); it runs up to `await cache.get`
ScoreClaimCall ==
  /\ scorePc \in {"idle", "returned", "rejected"}
  /\ calls < MaxCalls
  /\ calls' = calls + 1
  /\ scorePc' = "cacheGet"
  /\ adapter' = AdaptersOff
  /\ scores' = EmptyScores
  /\ result' = NoResult
  /\ fromCache' = FALSE
  /\ rejectCause' = "none"
  /\ adapterThrew' = {}
  /\ UNCHANGED <<nonScoreVars, scorerVersion, enabled, scoreCache>>

\* the synchronous part after a cache miss: every enabled scoreFromX is
\* called and runs up to its first await, then scoreClaim awaits allSettled
IssueAdapters ==
  /\ adapter' = [c \in Components |-> IF c \in enabled THEN "pending" ELSE "off"]
  /\ scores' = EmptyScores
  /\ scorePc' = "awaiting"

\* cache.get finds a live entry.  Its success handler calls store.put(entry)
\* on the store of the 'readonly' transaction it opened, where IndexedDB makes
\* put throw ReadOnlyError, so resolve(value) is never reached: the promise of
\* cache.get stays pending and `if (cached) return cached` is never run
CacheGetHit ==
  /\ scorePc = "cacheGet"
  /\ scoreCache # NoResult
  /\ scorePc' = "hung"
  /\ UNCHANGED <<nonScoreVars, adapterThrew, scorerVersion, enabled, adapter, scores, result,
                 fromCache, rejectCause, scoreCache, calls>>

\* cache.get finds no entry and resolves null
CacheGetMiss ==
  /\ scorePc = "cacheGet"
  /\ scoreCache = NoResult
  /\ IssueAdapters
  /\ UNCHANGED <<nonScoreVars, adapterThrew, scorerVersion, enabled, result, fromCache, rejectCause, scoreCache, calls>>

\* cache.get finds an entry past its expiry, deletes it and resolves null
CacheGetExpired ==
  /\ scorePc = "cacheGet"
  /\ scoreCache # NoResult
  /\ scoreCache' = NoResult
  /\ IssueAdapters
  /\ UNCHANGED <<nonScoreVars, adapterThrew, scorerVersion, enabled, result, fromCache, rejectCause, calls>>

\* the IndexedDB request of cache.get fails: scoreClaim rejects
CacheGetError ==
  /\ scorePc = "cacheGet"
  /\ scorePc' = "rejected"
  /\ rejectCause' = "cache"
  /\ UNCHANGED <<nonScoreVars, adapterThrew, scorerVersion, enabled, adapter, scores, result, fromCache, scoreCache, calls>>

\* scoreFromX for component c runs to its end: it writes its entry d into the
\* object `scores` (which the returned result references as `components`)
\* and its promise fulfils; an exception that left it would reject the promise
Settle(c, d, threw) ==
  /\ adapter[c] = "pending"
  /\ IF d = Uncaught
     THEN /\ adapter' = [adapter EXCEPT ![c] = "rejected"]
          /\ UNCHANGED <<scores, result>>
     ELSE /\ adapter' = [adapter EXCEPT ![c] = "settled"]
          /\ scores' = Put(scores, c, d)
          /\ result' = IF result = NoResult THEN result
                       ELSE [result EXCEPT !.components = Put(scores, c, d)]
  /\ adapterThrew' = IF threw THEN adapterThrew \cup {c} ELSE adapterThrew
  /\ UNCHANGED <<nonScoreVars, scorerVersion, enabled, scorePc, fromCache, rejectCause,
                 scoreCache, calls>>

SettleFactCheckers ==
  \E r \in FactCheckResults :
    Settle("fact_checker", scoreFromFactCheckers(r), FactCheckThrows(r))

SettleCredibility ==
  \E r \in CheckDomainResults :
    Settle("source_credibility", scoreFromCredibility(r), CredibilityThrows(r))

SettleScholarly ==
  \E n \in ResultCounts, ai \in AiResponses, fb \in FallbackInputs :
    Settle("scholarly", scoreFromScholarly(scorerVersion, n, ai, fb),
           ScholarlyThrows(scorerVersion, n, ai, fb))

SettleCoherence ==
  \E r \in CoherenceResponses :
    Settle("coherence", scoreFromCoherence(r), CoherenceThrows(r))

SettleAI ==
  \E n \in ResultCounts, ai \in AiResponses, fb \in FallbackInputs :
    Settle("ai", scoreFromAI(n, ai, fb), AIThrows(n, ai, fb))

\* the assessment server never answers a fetch that has no abort signal:
\* the promise of scoreFromX stays pending for good
CallNeverResponds ==
  \E c \in NoTimeoutComps(scorerVersion) :
    /\ scorePc = "awaiting"
    /\ adapter[c] = "pending"
    /\ adapter' = [adapter EXCEPT ![c] = "hung"]
    /\ UNCHANGED <<nonScoreVars, adapterThrew, scorerVersion, enabled, scorePc, scores, result, fromCache,
                   rejectCause, scoreCache, calls>>

\* variant: Promise.race in place of Promise.allSettled
AnySettled ==
  \/ \A c \in Components : adapter[c] = "off"
  \/ \E c \in Components : adapter[c] \in {"settled", "rejected"}

\* await Promise.allSettled(promises)
AllSettled == \A c \in Components : adapter[c] \in {"off", "settled", "rejected"}

\* calculateFinalScore, calculateOverallConfidence, then `await cache.set`
Aggregate ==
  /\ scorePc = "awaiting"
  /\ AllSettled
  /\ result' = [final      |-> calculateFinalScore(scorerVersion, scores),
                confidence |-> calculateOverallConfidence(scores),
                components |-> scores]
  /\ scorePc' = "cacheSet"
  /\ UNCHANGED <<nonScoreVars, adapterThrew, scorerVersion, enabled, adapter, scores, fromCache, rejectCause,
                 scoreCache, calls>>

\* cache.set stores the result for 6 hours and scoreClaim returns it
CacheSetOk ==
  /\ scorePc = "cacheSet"
  /\ scoreCache' = result
  /\ scorePc' = "returned"
  /\ UNCHANGED <<nonScoreVars, adapterThrew, scorerVersion, enabled, adapter, scores, result, fromCache,
                 rejectCause, calls>>

\* the IndexedDB request of cache.set fails: scoreClaim rejects
CacheSetError ==
  /\ scorePc = "cacheSet"
  /\ scorePc' = "rejected"
  /\ rejectCause' = "cache"
  /\ UNCHANGED <<nonScoreVars, adapterThrew, scorerVersion, enabled, adapter, scores, result, fromCache,
                 scoreCache, calls>>

ScoreNext ==
  \/ ScoreClaimCall
  \/ CacheGetHit
  \/ CacheGetMiss
  \/ CacheGetExpired
  \/ CacheGetError
  \/ SettleFactCheckers
  \/ SettleCredibility
  \/ SettleScholarly
  \/ SettleCoherence
  \/ SettleAI
  \/ CallNeverResponds
  \/ Aggregate
  \/ CacheSetOk
  \/ CacheSetError

ScoreSpec == ScoreInit /\ [][ScoreNext]_vars

\* every step the scheduler or the environment can take is eventually taken
FairScoreSpec == ScoreSpec /\ WF_vars(ScoreNext)

----------------------------------------------------------------------------
(* Properties of scoreClaim *)

\* the running call has computed its result itself (no cache hit)
Computed == scorePc \in {"cacheSet", "returned", "rejected"} /\ result # NoResult /\ ~fromCache

AllEnabledFailed == \A c \in enabled : c \in DOMAIN scores /\ scores[c].error

\* C1: when every enabled adapter failed, or none is enabled, the result
\* scoreClaim returns has final = 5 and confidence "low"
C1_NeutralFallback ==
  (scorePc = "returned" /\ AllEnabledFailed) =>
     (result.final = 5 /\ result.confidence = "low")

C1_Witness ==
  /\ scorePc = "returned"
  /\ ~fromCache
  /\ Cardinality(enabled) >= 2
  /\ AllEnabledFailed
  /\ result.final = 5

\* C2: a failing adapter aborts neither the other adapters nor scoreClaim:
\* scoreClaim rejects only on a cache failure, every enabled adapter has its
\* entry in components, the entry of an adapter that threw is the neutral
\* error entry and the entries of the others carry no error
C2_FailureIsolated ==
  /\ scorePc = "rejected" => rejectCause = "cache"
  /\ Computed =>
       \A c \in enabled :
         /\ c \in DOMAIN result.components
         /\ c \in adapterThrew => result.components[c] = NeutralError
         /\ c \notin adapterThrew => ~result.components[c].error

C2_Witness ==
  /\ scorePc = "returned"
  /\ ~fromCache
  /\ adapterThrew # {}
  /\ \E c \in enabled \ adapterThrew : result.components[c].score # 5

\* C3: final and the confidence band are computed only when every enabled
\* adapter call has settled, and nothing is written to the result afterwards
C3_FinalAfterAllSettled ==
  /\ [](Computed => \A c \in enabled : adapter[c] \in {"settled", "rejected"})
  /\ [][(result # NoResult /\ calls' = calls) => result' = result]_vars

C3_Witness ==
  /\ scorePc = "cacheSet"
  /\ Cardinality(enabled) >= 3
  /\ \A c \in enabled : adapter[c] = "settled"

MinTwice(sc) == CHOOSE m \in {Twice(sc[c]) : c \in NumericKeys(sc)} :
                  \A c \in NumericKeys(sc) : m <= Twice(sc[c])
MaxTwice(sc) == CHOOSE m \in {Twice(sc[c]) : c \in NumericKeys(sc)} :
                  \A c \in NumericKeys(sc) : m >= Twice(sc[c])

\* C4 as stated: final lies within [min, max] of the reported numeric scores
C4_WithinMinMax ==
  (Computed /\ NumericKeys(result.components) # {}) =>
     /\ MinTwice(result.components) <= 2 * result.final
     /\ 2 * result.final <= MaxTwice(result.components)

\* C4 amended: final lies between the smallest reported score rounded down
\* and the largest reported score rounded up
C4_WithinRoundedMinMax ==
  (Computed /\ NumericKeys(result.components) # {}) =>
     /\ MinTwice(result.components) \div 2 <= result.final
     /\ result.final <= (MaxTwice(result.components) + 1) \div 2

C4_Witness ==
  /\ Computed
  /\ Cardinality(NumericKeys(result.components)) >= 2
  /\ \E c \in NumericKeys(result.components) : result.components[c].half
  /\ MinTwice(result.components) < 2 * result.final
  /\ 2 * result.final < MaxTwice(result.components)

\* C5 as stated: final is an integer between 0 and 10
C5_FinalInRange ==
  result # NoResult => result.final \in 0..10

\* C9 as stated: a call whose adapters were issued completes, because an
\* external call that never responds times out into a neutral SourceScore
C9_ScoreClaimCompletes ==
  (scorePc = "awaiting") ~> (scorePc \in {"cacheSet", "returned", "rejected"})

\* C21: a scoreClaim call that finds a cache entry whose TTL has not elapsed
\* returns that entry without invoking an adapter, and is never left pending
\* on the lookup; a fresh computation runs only when no live entry exists.
C21_CachedUntilExpiry ==
  /\ scorePc # "hung"
  /\ (scorePc = "returned" /\ fromCache) => (result = scoreCache /\ adapter = AdaptersOff)
  /\ scorePc = "awaiting" => scoreCache = NoResult

\* C30: scoreClaim does not write to the cache a result in which an adapter
\* reported an error, so that a later scoreClaim for the claim queries the
\* adapters again.
C30_NoErrorResultCached ==
  \A c \in DOMAIN scoreCache.components : ~scoreCache.components[c].error

----------------------------------------------------------------------------
(* Content script: the batch loop *)

\* CONFIG.performance.batch_size, and the literal of processClaimsInBatches
BatchSize == 5

BatchVariants == {"startProcessing", "processClaimsInBatches"}

\* what a resolved scoreClaim hands back (final and confidence of its result)
ScoreClaimResults == {[final |-> 7, confidence |-> "medium"]}

Relationships == {"supports", "contradicts", "tangential"}

\* a calculateOverrideScore that maps contradicting evidence to zero
calculateOverrideScore_Zero(relationship) ==
  CASE relationship = "supports" -> 9
    [] relationship = "contradicts" -> 0
    [] relationship = "tangential" -> 5
    [] OTHER -> 5

\* OverrideEngine.calculateOverrideScore
calculateOverrideScore(relationship) ==
  CASE relationship = "supports" -> 9
    [] relationship = "contradicts" -> 2
    [] relationship = "tangential" -> 5
    [] OTHER -> 5

\* the object checkOverride resolves with when an override applies
OverrideResult(relationship) ==
  [score |-> calculateOverrideScore(relationship), relationship |-> relationship]

\* what checkOverride resolves with: null or an OverrideResult
CheckOverrideResults == {NoOverride} \cup {OverrideResult(r) : r \in Relationships}

\* startProcessing: override?.score || scores.final
\* processClaimsInBatches: override ? override.score : scores.final
finalScore(variant, override, sc) ==
  IF variant = "startProcessing"
  THEN IF override # NoOverride /\ override.score # 0 THEN override.score ELSE sc.final
  ELSE IF override # NoOverride THEN override.score ELSE sc.final

\* the record the callback returns on the normal path
ResultRecord(k, sc, override) ==
  [claim |-> k, scores |-> sc, override |-> override,
   finalScore |-> finalScore(batchVariant, override, sc)]

\* the record the catch block of startProcessing returns
NeutralRecord(k) ==
  [claim |-> k, scores |-> [final |-> 5, confidence |-> "low"],
   override |-> NoOverride, finalScore |-> 5]

Min(a, b) == IF a < b THEN a ELSE b

\* claims.slice(i, i + batchSize), as 1-based positions
Batch(i) == (i + 1)..Min(i + BatchSize, numClaims)

InFlight(k) == worker[k] \in {"normalizing", "scoring", "override"}

BatchInit ==
  /\ IdleExcept("batch")
  /\ batchVariant \in BatchVariants
  /\ overrideOn \in BOOLEAN
  /\ batchVariant = "processClaimsInBatches" => overrideOn
  /\ numClaims \in 1..MaxClaims
  /\ batchI = 0
  /\ batchPc = "loop"
  /\ worker = [k \in Claims |-> "idle"]
  /\ workerScores = [k \in Claims |-> NoScores]
  /\ outcome = [k \in Claims |-> NoRecord]
  /\ scoredResults = <<>>
  /\ failed = {}

\* loop test passed: batch.map starts one callback per claim of the slice,
\* each running up to its first await
BatchStart ==
  /\ batchPc = "loop"
  /\ batchI < numClaims
  /\ worker' = [k \in Claims |->
                  IF k \in Batch(batchI)
                  THEN IF batchVariant = "startProcessing" THEN "scoring" ELSE "normalizing"
                  ELSE worker[k]]
  /\ batchPc' = "awaiting"
  /\ UNCHANGED <<nonBatchVars, batchVariant, overrideOn, numClaims, batchI,
                 workerScores, outcome, scoredResults, failed>>

\* loop test failed
BatchLoopExit ==
  /\ batchPc = "loop"
  /\ batchI >= numClaims
  /\ batchPc' = "done"
  /\ UNCHANGED <<nonBatchVars, batchVariant, overrideOn, numClaims, batchI, worker,
                 workerScores, outcome, scoredResults, failed>>


\* an awaited call of claim k's callback rejected: startProcessing catches and
\* returns the neutral record, processClaimsInBatches has no try block inside
\* the callback, so its promise rejects
CallbackThrows(k) ==
  /\ failed' = failed \cup {k}
  /\ IF batchVariant = "startProcessing"
     THEN /\ worker' = [worker EXCEPT ![k] = "fulfilled"]
          /\ outcome' = [outcome EXCEPT ![k] = NeutralRecord(k)]
     ELSE /\ worker' = [worker EXCEPT ![k] = "rejected"]
          /\ UNCHANGED outcome

\* the callback returns its record
CallbackReturns(k, sc, override) ==
  /\ worker' = [worker EXCEPT ![k] = "fulfilled"]
  /\ outcome' = [outcome EXCEPT ![k] = ResultRecord(k, sc, override)]
  /\ UNCHANGED failed

\* processClaimsInBatches: ClaimNormalizer.normalize(claim) settles
NormalizeSettles ==
  \E k \in Claims, ok \in BOOLEAN :
    /\ worker[k] = "normalizing"
    /\ IF ok
       THEN /\ worker' = [worker EXCEPT ![k] = "scoring"]
            /\ UNCHANGED <<outcome, failed>>
       ELSE CallbackThrows(k)
    /\ UNCHANGED <<nonBatchVars, batchVariant, overrideOn, numClaims, batchI,
                   batchPc, workerScores, scoredResults>>

\* scoreClaim resolves; checkOverride is called next unless startProcessing
\* finds the override engine switched off
ScoreClaimResolves ==
  \E k \in Claims, sc \in ScoreClaimResults :
    /\ worker[k] = "scoring"
    /\ workerScores' = [workerScores EXCEPT ![k] = sc]
    /\ IF overrideOn
       THEN /\ worker' = [worker EXCEPT ![k] = "override"]
            /\ UNCHANGED <<outcome, failed>>
       ELSE CallbackReturns(k, sc, NoOverride)
    /\ UNCHANGED <<nonBatchVars, batchVariant, overrideOn, numClaims, batchI,
                   batchPc, scoredResults>>

\* scoreClaim rejects (its cache lookup or cache write failed)
ScoreClaimRejects ==
  \E k \in Claims :
    /\ worker[k] = "scoring"
    /\ CallbackThrows(k)
    /\ UNCHANGED <<nonBatchVars, batchVariant, overrideOn, numClaims, batchI,
                   batchPc, workerScores, scoredResults>>

\* checkOverride resolves with null or with an OverrideResult
CheckOverrideResolves ==
  \E k \in Claims, override \in CheckOverrideResults :
    /\ worker[k] = "override"
    /\ CallbackReturns(k, workerScores[k], override)
    /\ UNCHANGED <<nonBatchVars, batchVariant, overrideOn, numClaims, batchI,
                   batchPc, workerScores, scoredResults>>

\* checkOverride rejects
CheckOverrideRejects ==
  \E k \in Claims :
    /\ worker[k] = "override"
    /\ CallbackThrows(k)
    /\ UNCHANGED <<nonBatchVars, batchVariant, overrideOn, numClaims, batchI,
                   batchPc, workerScores, scoredResults>>

RECURSIVE FulfilledValues(_, _)
\* the fulfilled values of the batch's promises, in claim order
FulfilledValues(lo, hi) ==
  IF lo > hi THEN <<>>
  ELSE (IF worker[lo] = "fulfilled" THEN <<outcome[lo]>> ELSE <<>>)
       \o FulfilledValues(lo + 1, hi)

\* a Promise.race in place of Promise.allSettled
BatchAnySettled(i) == \E k \in Batch(i) : ~InFlight(k)

\* Promise.allSettled(batchPromises) resolves
BatchSettled(i) == \A k \in Batch(i) : ~InFlight(k)

\* the await on Promise.allSettled resumes: fulfilled values are handed on,
\* then either the 100 ms pause of processClaimsInBatches or i += batchSize
BatchEnd ==
  /\ batchPc = "awaiting"
  /\ BatchSettled(batchI)
  /\ scoredResults' = scoredResults \o FulfilledValues(batchI + 1, Min(batchI + BatchSize, numClaims))
  /\ IF batchVariant = "processClaimsInBatches" /\ batchI + BatchSize < numClaims
     THEN batchPc' = "delay" /\ UNCHANGED batchI
     ELSE batchPc' = "loop" /\ batchI' = batchI + BatchSize
  /\ UNCHANGED <<nonBatchVars, batchVariant, overrideOn, numClaims, worker,
                 workerScores, outcome, failed>>

\* the pause between two batches is over
DelayElapsed ==
  /\ batchPc = "delay"
  /\ batchPc' = "loop"
  /\ batchI' = batchI + BatchSize
  /\ UNCHANGED <<nonBatchVars, batchVariant, overrideOn, numClaims, worker,
                 workerScores, outcome, scoredResults, failed>>

BatchNext ==
  \/ BatchStart
  \/ BatchLoopExit
  \/ NormalizeSettles
  \/ ScoreClaimResolves
  \/ ScoreClaimRejects
  \/ CheckOverrideResolves
  \/ CheckOverrideRejects
  \/ BatchEnd
  \/ DelayElapsed

BatchSpec == BatchInit /\ [][BatchNext]_vars


----------------------------------------------------------------------------
(* Properties of the batch loop *)

\* C6: whenever checkOverride returned a non-null OverrideResult for a claim,
\* the finalScore of the claim's result record is that OverrideResult's score,
\* both in the callback's return value and in what is handed on
C6_OverrideWins ==
  /\ \A k \in Claims :
       (outcome[k] # NoRecord /\ outcome[k].override # NoOverride)
         => outcome[k].finalScore = outcome[k].override.score
  /\ \A j \in 1..Len(scoredResults) :
       scoredResults[j].override # NoOverride
         => scoredResults[j].finalScore = scoredResults[j].override.score

\* a handed-on record whose override replaced a different aggregate score
C6_Witness ==
  \E j \in 1..Len(scoredResults) :
    /\ scoredResults[j].override # NoOverride
    /\ scoredResults[j].override.score = 2
    /\ scoredResults[j].scores.final = 7
    /\ scoredResults[j].finalScore = 2

\* the batch a claim position belongs to
BatchOf(k) == (k - 1) \div BatchSize

RecordsOf(k) == {j \in 1..Len(scoredResults) : scoredResults[j].claim = k}

\* C8 as stated: when the loop is over every claim has exactly one record
\* handed on, and the record of a claim whose scoring or override check
\* failed is the neutral one
C8_OneRecordPerClaim ==
  batchPc = "done" =>
    \A k \in 1..numClaims :
      /\ Cardinality(RecordsOf(k)) = 1
      /\ k \in failed =>
           \A j \in RecordsOf(k) :
             /\ scoredResults[j].finalScore = 5
             /\ scoredResults[j].scores.confidence = "low"


\* scoreClaim of claim k is awaited
ScoringInFlight(k) == worker[k] = "scoring"

\* checkOverride of claim k has been called
OverrideIssued(k) == worker[k] = "override"

\* C19: scoring and the override check of a claim run in parallel: while the
\* claim's scoring is in flight its override check has been issued as well.
C19_OverrideInParallel ==
  \A k \in Claims : (overrideOn /\ ScoringInFlight(k)) => OverrideIssued(k)

----------------------------------------------------------------------------
(* Retry loops *)

\* the loops: Retry.withRetry with its default retry condition, withRetry as
\* Retry.createRetryableFetch calls it, AIClient.makeRequest and
\* AIServerClient.query
RetryLoops == {"withRetry", "retryableFetch", "makeRequest", "query"}

\* CONFIG.performance.max_retries
maxRetries == 3

\* CONFIG.performance.retry_delay, in ms
baseDelay == 1000

\* default of withRetry's option maxDelay, in ms
maxDelay == 30000

\* CONFIG.apis.ai_provider.retries, the options.retries of makeRequest
aiRetries == 3

\* this.retries of AIServerClient
serverRetries == 3

\* An error the operation can throw: its name, and which of the substrings
\* that defaultRetryCondition looks for occur in its message.  "HTTP 429: Too
\* Many Requests" holds both "HTTP 4" and "429".
Error(kind, name, marks) == [kind |-> kind, name |-> name, marks |-> marks]

Errors ==
  { Error("network", "TypeError", {"fetch"}),
    Error("abort", "AbortError", {}),
    Error("timeout", "Error", {"timeout"}),
    Error("http503", "Error", {"HTTP 5"}),
    Error("http429", "Error", {"HTTP 4", "429"}),
    Error("http404", "Error", {"HTTP 4"}),
    Error("validation", "Error", {"validation"}),
    Error("other", "Error", {}) }

\* Retry.defaultRetryCondition
defaultRetryCondition(error, att, max) ==
  IF att >= max THEN FALSE
  ELSE IF error.name = "TypeError" /\ "fetch" \in error.marks THEN TRUE
  ELSE IF error.name = "AbortError" \/ "timeout" \in error.marks THEN TRUE
  ELSE IF "HTTP 5" \in error.marks THEN TRUE
  ELSE IF "429" \in error.marks \/ "rate limit" \in error.marks THEN TRUE
  ELSE IF "HTTP 4" \in error.marks THEN FALSE
  ELSE IF "validation" \in error.marks \/ "invalid" \in error.marks THEN FALSE
  ELSE FALSE

RECURSIVE Pow(_, _)
Pow(b, n) == IF n = 0 THEN 1 ELSE b * Pow(b, n - 1)

\* the options object of a call.  For makeRequest maxRetries stands for
\* options.retries; its delay and cap are literals of the loop.
Options(max, base, cap) == [maxRetries |-> max, baseDelay |-> base, maxDelay |-> cap]

\* the options a loop can be called with: the defaults, and one call that
\* asks for more retries (withRetry: with a lower cap)
OptionsOf(loop) ==
  CASE loop = "withRetry" -> {Options(maxRetries, baseDelay, maxDelay), Options(4, 1000, 5000)}
    [] loop = "retryableFetch" -> {Options(3, 1000, maxDelay)}
    [] loop = "makeRequest" -> {Options(aiRetries, 1000, 10000), Options(5, 1000, 10000)}
    [] OTHER -> {Options(serverRetries, 1000, 0)}

\* the HTTP status createRetryableFetch attaches to the error it throws
StatusOf(error) ==
  CASE error.kind = "http503" -> 503
    [] error.kind = "http429" -> 429
    [] error.kind = "http404" -> 404
    [] OTHER -> 0

\* the retryCondition createRetryableFetch passes to withRetry
retryableFetchCondition(error) ==
  \/ error.name = "TypeError"
  \/ (StatusOf(error) # 0 /\ StatusOf(error) >= 500)
  \/ "fetch" \in error.marks

\* retryCondition(error, attempt, maxRetries) of the running withRetry call
retryCondition(error, att, max) ==
  IF retryLoop = "retryableFetch"
  THEN retryableFetchCondition(error)
  ELSE defaultRetryCondition(error, att, max)

\* a backoff without the cap
withRetryDelay_NoCap(att) == retryOptions.baseDelay * Pow(2, att)

\* Math.min(baseDelay * Math.pow(backoffFactor, attempt), maxDelay)
withRetryDelay(att) == Min(retryOptions.baseDelay * Pow(2, att), retryOptions.maxDelay)

\* Math.min(1000 * Math.pow(2, attempt), 10000)
makeRequestDelay(att) == Min(1000 * Pow(2, att), 10000)

\* 1000 * attempt
queryDelay(att) == 1000 * att

RetryInit ==
  /\ IdleExcept("retry")
  /\ retryLoop \in RetryLoops
  /\ retryOptions \in OptionsOf(retryLoop)
  /\ retryPc = "calling"
  /\ attempt = (IF retryLoop = "query" THEN 1 ELSE 0)
  /\ invocations = 0
  /\ failures = <<>>
  /\ waits = <<>>

\* the awaited operation resolves and the loop returns its value
OperationResolves ==
  /\ retryPc = "calling"
  /\ invocations' = invocations + 1
  /\ retryPc' = "returned"
  /\ UNCHANGED <<nonRetryVars, retryLoop, retryOptions, attempt, failures, waits>>

\* catch block of withRetry; when the condition asks for a retry after the
\* last attempt the loop ends and lastError is thrown
WithRetryCatch ==
  \E error \in Errors :
    /\ retryLoop \in {"withRetry", "retryableFetch"}
    /\ retryPc = "calling"
    /\ invocations' = invocations + 1
    /\ failures' = Append(failures, error)
    /\ IF ~retryCondition(error, attempt, retryOptions.maxRetries)
       THEN retryPc' = "thrown" /\ UNCHANGED waits
       ELSE IF attempt < retryOptions.maxRetries
       THEN retryPc' = "sleeping" /\ waits' = Append(waits, withRetryDelay(attempt))
       ELSE retryPc' = "thrown" /\ UNCHANGED waits
    /\ UNCHANGED <<nonRetryVars, retryLoop, retryOptions, attempt>>

\* catch block of makeRequest; after the last attempt the loop ends and
\* lastError is thrown
MakeRequestCatch ==
  \E error \in Errors :
    /\ retryLoop = "makeRequest"
    /\ retryPc = "calling"
    /\ invocations' = invocations + 1
    /\ failures' = Append(failures, error)
    /\ IF attempt < retryOptions.maxRetries
       THEN retryPc' = "sleeping" /\ waits' = Append(waits, makeRequestDelay(attempt))
       ELSE retryPc' = "thrown" /\ UNCHANGED waits
    /\ UNCHANGED <<nonRetryVars, retryLoop, retryOptions, attempt>>

\* catch block of query
QueryCatch ==
  \E error \in Errors :
    /\ retryLoop = "query"
    /\ retryPc = "calling"
    /\ invocations' = invocations + 1
    /\ failures' = Append(failures, error)
    /\ IF attempt = serverRetries
       THEN retryPc' = "thrown" /\ UNCHANGED waits
       ELSE retryPc' = "sleeping" /\ waits' = Append(waits, queryDelay(attempt))
    /\ UNCHANGED <<nonRetryVars, retryLoop, retryOptions, attempt>>

\* the timer of the sleep fires; the loop increments attempt and calls again
SleepElapsed ==
  /\ retryPc = "sleeping"
  /\ attempt' = attempt + 1
  /\ retryPc' = "calling"
  /\ UNCHANGED <<nonRetryVars, retryLoop, retryOptions, invocations, failures, waits>>

RetryNext ==
  \/ OperationResolves
  \/ WithRetryCatch
  \/ MakeRequestCatch
  \/ QueryCatch
  \/ SleepElapsed

RetrySpec == RetryInit /\ [][RetryNext]_vars

----------------------------------------------------------------------------
(* Properties of the retry loops *)

\* the failures the specification calls transient: network errors, timeouts,
\* HTTP 5xx and HTTP 429
Transient(error) == error.kind \in {"network", "abort", "timeout", "http503", "http429"}

\* C10 as stated: the operation is invoked again only after a transient
\* failure; after a 4xx other than 429 or a validation error it has been
\* invoked exactly once and the loop has thrown
C10_RetryOnlyTransient ==
  /\ \A j \in 1..Len(failures) : j < invocations => Transient(failures[j])
  /\ \A j \in 1..Len(failures) :
       (~Transient(failures[j]) /\ retryPc # "calling")
         => (invocations = 1 /\ retryPc = "thrown")


\* the loops C11 is about: withRetry (both ways it is called) and makeRequest
BackoffLoops == {"withRetry", "retryableFetch", "makeRequest"}

\* C11: the operation is invoked at most maxRetries + 1 times, after which
\* the loop has returned or thrown; the k-th wait (k from 0) is
\* min(baseDelay * 2^k, cap); every wait is followed by another invocation,
\* so none follows the final attempt
C11_BoundedBackoff ==
  retryLoop \in BackoffLoops =>
    /\ invocations <= retryOptions.maxRetries + 1
    /\ invocations = retryOptions.maxRetries + 1 => retryPc \in {"returned", "thrown"}
    /\ \A k \in 1..Len(waits) :
         waits[k] = Min(retryOptions.baseDelay * Pow(2, k - 1), retryOptions.maxDelay)
    /\ Len(waits) <= retryOptions.maxRetries
    /\ retryPc = "sleeping" => Len(waits) = invocations
    /\ retryPc # "sleeping" => Len(waits) = attempt
    /\ retryPc \in {"returned", "thrown"} => Len(waits) = invocations - 1
    /\ retryPc = "thrown" => Len(failures) = invocations

\* withRetry gave up after maxRetries + 1 invocations, its last wait capped
C11_Witness ==
  /\ retryLoop = "withRetry"
  /\ retryPc = "thrown"
  /\ invocations = retryOptions.maxRetries + 1
  /\ waits = <<1000, 2000, 4000, 5000>>


----------------------------------------------------------------------------
(* Circuit breaker: the function Retry.createCircuitBreaker returns *)

\* createCircuitBreaker(threshold = 5, timeout = 60000): the defaults, with
\* the timeout in clock units, and a breaker with a lower threshold
BreakerArgs == {[threshold |-> 5, timeout |-> 2], [threshold |-> 2, timeout |-> 1]}

BreakerInit ==
  /\ IdleExcept("breaker")
  /\ breakerArgs \in BreakerArgs
  /\ breakerState = "closed"
  /\ breakerFailures = 0
  /\ lastFailureTime = 0
  /\ clock = 0
  /\ breakerCalls = [c \in Callers |-> NoCall]
  /\ breakerStarted = 0
  /\ consecutive = 0
  /\ lastFailureAt = Absent
  /\ openedAfter = Absent
  /\ halfOpenGap = Absent

\* the test that lets an open breaker become half-open
CooldownOver(now) == now - lastFailureTime >= breakerArgs.timeout

\* a caller calls the breaker: it runs up to `await Retry.withRetry(...)`, or
\* throws 'Circuit breaker is open' before that; trial records that the
\* breaker was half-open when the call was let through
BreakerCall ==
  \E c \in Callers :
    /\ breakerCalls[c].pc = "idle"
    /\ breakerStarted < MaxBreakerCalls
    /\ breakerStarted' = breakerStarted + 1
    /\ IF breakerState = "open" /\ CooldownOver(clock)
       THEN /\ breakerState' = "half-open"
            /\ halfOpenGap' = clock - lastFailureAt
            /\ breakerCalls' = [breakerCalls EXCEPT
                                 ![c] = [pc |-> "running", now |-> clock, trial |-> TRUE]]
       ELSE /\ UNCHANGED <<breakerState, halfOpenGap>>
            /\ IF breakerState = "open"
               THEN UNCHANGED breakerCalls
               ELSE breakerCalls' = [breakerCalls EXCEPT
                                      ![c] = [pc |-> "running", now |-> clock,
                                              trial |-> breakerState = "half-open"]]
    /\ UNCHANGED <<nonBreakerVars, breakerArgs, breakerFailures, lastFailureTime, clock,
                   consecutive, lastFailureAt, openedAfter>>

\* withRetry resolved: the breaker closes if it was half-open
BreakerOperationResolves ==
  \E c \in Callers :
    /\ breakerCalls[c].pc = "running"
    /\ breakerCalls' = [breakerCalls EXCEPT ![c] = NoCall]
    /\ IF breakerState = "half-open"
       THEN breakerState' = "closed" /\ breakerFailures' = 0
       ELSE UNCHANGED <<breakerState, breakerFailures>>
    /\ consecutive' = 0
    /\ UNCHANGED <<nonBreakerVars, breakerArgs, lastFailureTime, clock, breakerStarted,
                   lastFailureAt, openedAfter, halfOpenGap>>

\* withRetry threw: the catch block counts the failure, stores the `now` the
\* call read when it started, and opens the breaker at the threshold
BreakerOperationThrows ==
  \E c \in Callers :
    /\ breakerCalls[c].pc = "running"
    /\ breakerCalls' = [breakerCalls EXCEPT ![c] = NoCall]
    /\ breakerFailures' = breakerFailures + 1
    /\ lastFailureTime' = breakerCalls[c].now
    /\ consecutive' = consecutive + 1
    /\ lastFailureAt' = clock
    /\ IF breakerFailures + 1 >= breakerArgs.threshold
       THEN /\ breakerState' = "open"
            /\ openedAfter' = IF breakerState = "closed" THEN consecutive + 1 ELSE openedAfter
       ELSE UNCHANGED <<breakerState, openedAfter>>
    /\ UNCHANGED <<nonBreakerVars, breakerArgs, clock, breakerStarted, halfOpenGap>>

\* time passes
Tick ==
  /\ clock < MaxTime
  /\ clock' = clock + 1
  /\ UNCHANGED <<nonBreakerVars, breakerArgs, breakerState, breakerFailures, lastFailureTime,
                 breakerCalls, breakerStarted, consecutive, lastFailureAt, openedAfter,
                 halfOpenGap>>

BreakerNext ==
  \/ BreakerCall
  \/ BreakerOperationResolves
  \/ BreakerOperationThrows
  \/ Tick

BreakerSpec == BreakerInit /\ [][BreakerNext]_vars

----------------------------------------------------------------------------
(* Properties of the circuit breaker *)

\* C12 as stated: the breaker went from closed to open only after threshold
\* consecutive failed calls, and from open to half-open only when the
\* cooldown had elapsed since the last failure
C12_BreakerTransitions ==
  /\ openedAfter # Absent => openedAfter >= breakerArgs.threshold
  /\ halfOpenGap # Absent => halfOpenGap >= breakerArgs.timeout

\* the calls let through by a half-open breaker whose operation is running
TrialCalls == {c \in Callers : breakerCalls[c].pc = "running" /\ breakerCalls[c].trial}

\* C28: while the breaker is half-open at most one trial call runs at a time;
\* calls arriving meanwhile are not let through to the operation.
C28_OneTrialCall == Cardinality(TrialCalls) <= 1

----------------------------------------------------------------------------
(* Claim extractor *)

\* the three ClaimExtractor classes: src/unnamed/part_004 ("candidate", it
\* scores with scoreClaimCandidate) and the two revisions kept in
\* src/src/pipeline/claimExtractor.js ("v1", "v2", they score with
\* scoreClaimLikelihood)
ExtractorRevs == {"candidate", "v1", "v2"}

\* A sentence: its lower-cased words as numbers, whether it holds upper-case
\* letters, its last character, its length in characters, how many of its
\* words are factual verbs, how many claim markers it contains, the names of
\* the other patterns that match it, and analyzeStructure's score in
\* hundredths.  Confidences are in ten-thousandths.
Sentence(words, caps, ends, length, verbs, markers, signals, structure) ==
  [words |-> words, caps |-> caps, ends |-> ends, length |-> length, verbs |-> verbs,
   markers |-> markers, signals |-> signals, structure |-> structure]

SampleSentences ==
  { Sentence(<<1, 2, 3, 4, 5>>, TRUE, ".", 80, 1, 1, {"statistical", "percentage"}, 80),
    Sentence(<<6, 1, 2, 3, 4, 5>>, TRUE, ".", 90, 1, 0, {"statistical", "percentage"}, 80),
    Sentence(<<7, 8, 9>>, TRUE, ".", 40, 1, 0, {"scientific"}, 60),
    Sentence(<<1, 2, 3, 10, 11>>, TRUE, "?", 85, 2, 1, {"statistical", "scientific", "percentage"}, 60),
    Sentence(<<12, 13>>, TRUE, "?", 30, 1, 0, {}, 60),
    Sentence(<<14, 15, 16>>, FALSE, ".", 45, 1, 0, {"opinion", "opinionMarker", "lowercaseStart"}, 40),
    Sentence(<<17>>, TRUE, ".", 12, 1, 0, {}, 60) }

min_claim_length(rev) == IF rev = "candidate" THEN 15 ELSE 20

max_claim_length(rev) == IF rev = "candidate" THEN 300 ELSE 200

Has(s, signal) == signal \in s.signals

Weight(s, signal, w) == IF Has(s, signal) THEN w ELSE 0

Max(a, b) == IF a > b THEN a ELSE b

\* sentence.includes('?')
includesQuestion(s) == s.ends = "?" \/ Has(s, "innerQuestion")

\* ClaimExtractor.scoreClaimLikelihood of revisions v1 and v2
scoreClaimLikelihood(rev, s) ==
  LET signalScore ==
        2000 * s.verbs + 3000 * s.markers
        + Weight(s, "statistical", 2000) + Weight(s, "scientific", 1000)
        + Weight(s, "comparative", 1000) + Weight(s, "causal", 1500)
        + Weight(s, "definitive", 1000) + Weight(s, "policy", 1000)
        + Weight(s, "commemorative", 1500) + Weight(s, "location", 1000)
        + Weight(s, "legal", 1500) - Weight(s, "opinion", 2000)
      penalty ==
        IF rev = "v1"
        THEN Weight(s, "allCaps", 1000) + Weight(s, "lowercaseStart", 1000)
        ELSE IF includesQuestion(s) THEN 3000 ELSE 0
      short == IF s.length < 20 THEN 1000 ELSE 0
      score == signalScore - penalty - short
      withBonus == IF score > 3000 THEN score + 500 ELSE score
  IN Max(0, Min(10000, withBonus))

\* a scorer that gives a percentage no weight
scoreClaimCandidate_NoPercentage(s) ==
  IF s.length < min_claim_length("candidate") \/ s.length > max_claim_length("candidate")
  THEN [isClaim |-> FALSE, confidence |-> 0]
  ELSE [isClaim |-> FALSE, confidence |-> Min(s.structure * 18, 20000) \div 2]

\* ClaimExtractor.scoreClaimCandidate: isClaim and confidence
scoreClaimCandidate(s) ==
  IF s.length < min_claim_length("candidate") \/ s.length > max_claim_length("candidate")
  THEN [isClaim |-> FALSE, confidence |-> 0]
  ELSE IF s.ends = "?"
  THEN [isClaim |-> FALSE, confidence |-> 0]
  ELSE
    LET verb == IF s.verbs > 0 THEN 4500 ELSE 0
        afterOpinion == IF Has(s, "opinionMarker") THEN (verb * 7) \div 10 ELSE verb
        confidenceScore ==
          afterOpinion + (IF s.markers > 0 THEN 3500 ELSE 0)
          + Weight(s, "percentage", 2500) + Weight(s, "largeNumber", 2200)
          + Weight(s, "namedEntity", 1500) + Weight(s, "date", 1200)
          + Weight(s, "quotation", 1200) + s.structure * 18
        normalizedConfidence == Min(confidenceScore, 20000) \div 2
        multipleSignals ==
          Cardinality(s.signals \cap {"percentage", "largeNumber", "namedEntity", "date",
                                      "quotation"}) >= 2
        hasSingleStrongSignal == Has(s, "percentage") \/ Has(s, "largeNumber")
    IN [isClaim |-> /\ (s.verbs > 0 \/ s.markers > 0 \/ multipleSignals \/ hasSingleStrongSignal)
                    /\ normalizedConfidence >= 1000
                    /\ s.ends # "?",
        confidence |-> normalizedConfidence]


\* a claim object: text, confidence and method
Claim(text, confidence, method) == [text |-> text, confidence |-> confidence, method |-> method]

\* does extractClaimsHeuristic (v1, v2) or the loop of part_004's
\* extractClaims (candidate) push the sentence
Accepts(rev, s) ==
  IF rev = "candidate"
  THEN scoreClaimCandidate(s).isClaim /\ scoreClaimCandidate(s).confidence >= Min(2500, 1500)
  ELSE /\ s.length >= min_claim_length(rev)
       /\ s.length <= max_claim_length(rev)
       /\ scoreClaimLikelihood(rev, s) >= 2500

\* the confidence stored with a pushed sentence
ConfidenceOf(rev, s) ==
  IF rev = "candidate" THEN scoreClaimCandidate(s).confidence ELSE scoreClaimLikelihood(rev, s)

RECURSIVE PushClaims(_, _)
\* the loop over the sentences
PushClaims(rev, sentences) ==
  IF sentences = <<>> THEN <<>>
  ELSE (IF Accepts(rev, Head(sentences))
        THEN <<Claim(Head(sentences), ConfidenceOf(rev, Head(sentences)), "heuristic")>>
        ELSE <<>>)
       \o PushClaims(rev, Tail(sentences))

RECURSIVE Insert(_, _)
\* put claim c behind every claim of the sorted list that is not less confident
Insert(sorted, c) ==
  IF sorted = <<>> THEN <<c>>
  ELSE IF Head(sorted).confidence >= c.confidence
       THEN <<Head(sorted)>> \o Insert(Tail(sorted), c)
       ELSE <<c>> \o sorted

RECURSIVE SortByConfidence(_)
\* claims.sort((a, b) => b.confidence - a.confidence), a stable sort
SortByConfidence(claims) ==
  IF claims = <<>> THEN <<>>
  ELSE Insert(SortByConfidence(SubSeq(claims, 1, Len(claims) - 1)), claims[Len(claims)])

\* array.slice(0, n)
Slice(seq, n) == SubSeq(seq, 1, Min(n, Len(seq)))

\* how many claims extractClaimsHeuristic keeps (part_004: 150)
HeuristicLimit(rev) == IF rev = "candidate" THEN 150 ELSE 100

\* ClaimExtractor.extractClaimsHeuristic
extractClaimsHeuristic(rev, sentences) ==
  Slice(SortByConfidence(PushClaims(rev, sentences)), HeuristicLimit(rev))

\* text.toLowerCase(): the characters without their case
toLowerCase(text) == [words |-> text.words, ends |-> text.ends]

\* new Set(text.toLowerCase().split(/\s+/)): the last word carries the
\* sentence's final character
WordSet(text) ==
  {<<text.words[i], IF i = Len(text.words) THEN text.ends ELSE "">> : i \in 1..Len(text.words)}

\* calculateSimilarity(text1, text2) > 0.8, the Jaccard similarity of the sets
Similar(text1, text2) ==
  10 * Cardinality(WordSet(text1) \cap WordSet(text2))
    > 8 * Cardinality(WordSet(text1) \cup WordSet(text2))

RECURSIVE AddUnseen(_, _)
\* v1: append the AI claims whose lower-cased text was not seen yet
AddUnseen(allClaims, ai) ==
  IF ai = <<>> THEN allClaims
  ELSE IF \E j \in 1..Len(allClaims) : toLowerCase(allClaims[j].text) = toLowerCase(Head(ai).text)
       THEN AddUnseen(allClaims, Tail(ai))
       ELSE AddUnseen(Append(allClaims, Head(ai)), Tail(ai))

RECURSIVE AddUnique(_, _)
\* v2: append each claim that is not similar to one kept before
AddUnique(uniqueClaims, rest) ==
  IF rest = <<>> THEN uniqueClaims
  ELSE IF \E j \in 1..Len(uniqueClaims) : Similar(Head(rest).text, uniqueClaims[j].text)
       THEN AddUnique(uniqueClaims, Tail(rest))
       ELSE AddUnique(Append(uniqueClaims, Head(rest)), Tail(rest))

\* a merge that keeps the AI claims only
combineAndDeduplicateClaims_AiOnly(rev, heuristic, ai) ==
  Slice(SortByConfidence(ai), 20)

\* ClaimExtractor.combineAndDeduplicateClaims
combineAndDeduplicateClaims(rev, heuristic, ai) ==
  IF rev = "v1"
  THEN Slice(SortByConfidence(AddUnseen(heuristic, ai)), 100)
  ELSE Slice(SortByConfidence(AddUnique(<<>>, heuristic \o ai)), 20)


RECURSIVE SumConfidences(_)
SumConfidences(claims) ==
  IF claims = <<>> THEN 0 ELSE Head(claims).confidence + SumConfidences(Tail(claims))

RECURSIVE TextLength(_)
\* originalText.length: the sentences and the blanks between them
TextLength(sentences) ==
  IF sentences = <<>> THEN 0
  ELSE Head(sentences).length + (IF Len(sentences) > 1 THEN 1 ELSE 0) + TextLength(Tail(sentences))

\* CONFIG.claim_extraction.heuristic_threshold, in ten-thousandths
heuristic_threshold == 6000

\* ClaimExtractor.evaluateHeuristicConfidence, before its clamp to [0, 1], as
\* the fraction num / den of ten-thousandths: the average confidence, plus
\* min(0.3, 0.08 per statistical claim), plus min(0.2, 0.05 per claim of
\* confidence >= 0.6), minus max(0, 0.2 - claims per 300 characters)
evaluateHeuristicConfidence(claims, textLength) ==
  IF claims = <<>> THEN [num |-> 0, den |-> 1]
  ELSE
    LET n == Len(claims)
        d == Max(300, textLength)
        statisticalClaims == Cardinality({j \in 1..n : Has(claims[j].text, "statistical")})
        statisticalBonus == Min(3000, statisticalClaims * 800)
        highConfidenceClaims == Cardinality({j \in 1..n : claims[j].confidence >= 6000})
        highConfidenceBonus == Min(2000, highConfidenceClaims * 500)
        lengthPenalty == Max(0, 2000 * n * d - 3000000 * n * n)
    IN [num |-> SumConfidences(claims) * d
                + (statisticalBonus + highConfidenceBonus) * n * d - lengthPenalty,
        den |-> n * d]

\* heuristicConfidence >= this.heuristicThreshold
ConfidenceSufficient(claims, textLength) ==
  LET c == evaluateHeuristicConfidence(claims, textLength)
  IN c.num >= heuristic_threshold * c.den

\* texts the AI service sends back; NoText is an item without a text field
NoText == Sentence(<<>>, FALSE, "undefined", 0, 0, 0, {}, 0)

AiText(words, caps, ends) == Sentence(words, caps, ends, 40, 0, 0, {}, 0)

\* the items of an AI reply: text and confidence (0: no confidence given)
AiItem(text, confidence) == [text |-> text, confidence |-> confidence]

AiItemLists ==
  { <<AiItem(AiText(<<22, 23, 24>>, TRUE, "."), 8000)>>,
    <<AiItem(Sentence(<<1, 2, 3, 4, 5>>, FALSE, ".", 80, 1, 1, {"statistical", "percentage"}, 80), 9000),
      AiItem(AiText(<<22, 23, 24>>, TRUE, "."), 8000)>>,
    <<AiItem(AiText(<<6, 1, 2, 3, 4, 5>>, FALSE, "."), 7000)>>,
    <<AiItem(AiText(<<20, 21>>, TRUE, "?"), 0)>>,
    <<AiItem(NoText, 7000)>> }

\* what aiClient.query resolves with: an array (AIServerClient.query), a
\* string that JSON.parse accepts, a cut-off string of which the repairs of
\* safeJSONParse recover the complete objects, or a string none of the
\* parsing attempts gets anything from
AiReplies ==
  [format : {"array", "json", "truncated"}, items : AiItemLists]
    \cup {[format |-> "garbage", items |-> <<>>]}

\* the mapping of the reply's items to claims: confidence || 0.5, method 'ai'
MapAiItems(items) ==
  [j \in 1..Len(items) |->
     Claim(items[j].text, IF items[j].confidence = 0 THEN 5000 ELSE items[j].confidence, "ai")]

\* the claims extractClaimsAI builds from a reply
ParseReply(reply) ==
  IF reply.format = "garbage" THEN <<>> ELSE MapAiItems(reply.items)

\* combineAndDeduplicateClaims throws a TypeError when it lower-cases a text
\* that is undefined: v1 for every AI claim, v2 when a claim is compared
\* with one kept before
CombineThrows(rev, heuristic, ai) ==
  /\ \E j \in 1..Len(ai) : ai[j].text = NoText
  /\ rev = "v2" => Len(heuristic) + Len(ai) >= 2


RECURSIVE SeqsUpTo(_, _)
\* the sequences over set S of length at most n
SeqsUpTo(S, n) ==
  IF n = 0 THEN {<<>>}
  ELSE SeqsUpTo(S, n - 1) \cup {Append(q, x) : q \in {r \in SeqsUpTo(S, n - 1) : Len(r) = n - 1}, x \in S}

\* an article of 21 weak claims that have no word in common
LongArticle ==
  [i \in 1..21 |-> Sentence(<<100 + i>>, TRUE, ".", 40, 1, 0, {"scientific"}, 60)]

Articles == SeqsUpTo(SampleSentences, MaxSentences) \cup {LongArticle}

\* the arguments a caller can hand to extractClaims: a string, undefined (or
\* null), and a value that is neither, such as a number
DocumentTypes == {"string", "undefined", "number"}

ExtractInit ==
  /\ IdleExcept("extract")
  /\ extractorRev \in ExtractorRevs
  /\ extractMethod \in {"heuristic", "hybrid"}
  /\ extractorRev = "candidate" => extractMethod = "heuristic"
  /\ article \in Articles
  /\ documentType \in DocumentTypes
  /\ documentType # "string" => article = <<>>
  /\ extractPc = "idle"
  /\ heuristicClaims = <<>>
  /\ aiClaims = <<>>
  /\ aiOutcome = "none"
  /\ extracted = <<>>

\* whether extractClaims throws a TypeError before its first await: the
\* candidate revision calls articleContent.trim() on any truthy argument
\* ahead of its try block, the other revisions read text.length first
ExtractClaimsThrows(rev, type) ==
  IF rev = "candidate" THEN type = "number" ELSE type = "undefined"

\* extractClaims(text) up to its return or to the `await cache.get` of
\* extractClaimsAI
ExtractClaimsCall ==
  /\ extractPc = "idle"
  /\ LET found == extractClaimsHeuristic(extractorRev, article)
     IN IF ExtractClaimsThrows(extractorRev, documentType)
        THEN /\ extractPc' = "rejected"
             /\ UNCHANGED <<extracted, heuristicClaims>>
        ELSE IF extractorRev = "candidate"
        THEN /\ extracted' = IF documentType = "undefined"
                                \/ TextLength(article) < min_claim_length("candidate")
                             THEN <<>> ELSE found
             /\ heuristicClaims' = extracted'
             /\ extractPc' = "returned"
        ELSE /\ heuristicClaims' = found
             /\ IF extractMethod = "heuristic" \/ ConfidenceSufficient(found, TextLength(article))
                THEN extracted' = found /\ extractPc' = "returned"
                ELSE extracted' = <<>> /\ extractPc' = "cacheGet"
  /\ UNCHANGED <<nonExtractVars, extractorRev, extractMethod, article, documentType, aiClaims, aiOutcome>>

\* extractClaimsAI resolved with claims ai: extractClaims combines and returns,
\* or rejects with the TypeError of combineAndDeduplicateClaims
AiSettles(ai, how) ==
  /\ aiClaims' = ai
  /\ aiOutcome' = how
  /\ IF CombineThrows(extractorRev, heuristicClaims, ai)
     THEN extractPc' = "rejected" /\ UNCHANGED extracted
     ELSE /\ extractPc' = "returned"
          /\ extracted' = combineAndDeduplicateClaims(extractorRev, heuristicClaims, ai)
  /\ UNCHANGED <<nonExtractVars, extractorRev, extractMethod, article, documentType, heuristicClaims>>

\* cache.get finds a live entry with an earlier AI result: its promise is
\* never settled (see ConcurrentGetLive), so extractClaims stays at the await
AiCacheHit ==
  /\ extractPc = "cacheGet"
  /\ extractPc' = "hung"
  /\ aiOutcome' = "cached"
  /\ UNCHANGED <<nonExtractVars, extractorRev, extractMethod, article, documentType, heuristicClaims,
                 aiClaims, extracted>>

\* cache.get rejects, outside every try block
AiCacheError ==
  /\ extractPc = "cacheGet"
  /\ extractPc' = "rejected"
  /\ aiOutcome' = "cacheError"
  /\ UNCHANGED <<nonExtractVars, extractorRev, extractMethod, article, documentType, heuristicClaims,
                 aiClaims, extracted>>

\* cache.get resolves with null and getAIClient finds a client: query is sent
AiCacheMiss ==
  /\ extractPc = "cacheGet"
  /\ documentType = "string"
  /\ extractPc' = "query"
  /\ UNCHANGED <<nonExtractVars, extractorRev, extractMethod, article, documentType, heuristicClaims,
                 aiClaims, aiOutcome, extracted>>

\* cache.get resolves with null and the argument has no substring method:
\* the prompt template throws a TypeError ahead of the try block
AiPromptThrows ==
  /\ extractPc = "cacheGet"
  /\ documentType # "string"
  /\ extractPc' = "rejected"
  /\ aiOutcome' = "promptThrew"
  /\ UNCHANGED <<nonExtractVars, extractorRev, extractMethod, article, documentType, heuristicClaims,
                 aiClaims, extracted>>

\* cache.get resolves with null and getAIClient throws: no client is loaded
AiUnavailable ==
  /\ extractPc = "cacheGet"
  /\ documentType = "string"
  /\ AiSettles(<<>>, "unavailable")

\* aiClient.query rejects
AiQueryThrows ==
  /\ extractPc = "query"
  /\ AiSettles(<<>>, "threw")

\* aiClient.query resolves and nothing can be parsed from the reply
AiReplyUnparsable ==
  \E reply \in AiReplies :
    /\ extractPc = "query"
    /\ ParseReply(reply) = <<>>
    /\ AiSettles(<<>>, "unparsable")

\* aiClient.query resolves with a reply that holds claims: they are cached
\* (cacheOk) or cache.set rejects, which the catch block turns into []
AiReplyParsed ==
  \E reply \in AiReplies, cacheOk \in BOOLEAN :
    /\ extractPc = "query"
    /\ ParseReply(reply) # <<>>
    /\ IF cacheOk
       THEN AiSettles(ParseReply(reply), "parsed")
       ELSE AiSettles(<<>>, "cacheSetFailed")

ExtractNext ==
  \/ ExtractClaimsCall
  \/ AiCacheHit
  \/ AiCacheError
  \/ AiCacheMiss
  \/ AiPromptThrows
  \/ AiUnavailable
  \/ AiQueryThrows
  \/ AiReplyUnparsable
  \/ AiReplyParsed

ExtractSpec == ExtractInit /\ [][ExtractNext]_vars


----------------------------------------------------------------------------
(* Properties of the claim extractor *)

\* C13 as stated: no sentence that ends in "?" is accepted as a claim, so
\* none is among the heuristic claims or in what extractClaims returns
C13_NoQuestions ==
  /\ \A j \in 1..Len(heuristicClaims) : heuristicClaims[j].text.ends # "?"
  /\ extractPc = "returned" => \A j \in 1..Len(extracted) : extracted[j].text.ends # "?"

\* extractClaims returned the merge of the heuristic and the AI claims
Merged == extractPc = "returned" /\ aiOutcome # "none"

\* C14 as stated: the merged result holds no two entries whose token-set
\* Jaccard similarity exceeds 0.8
C14_NoNearDuplicates ==
  Merged =>
    \A i, j \in 1..Len(extracted) :
      i # j => ~Similar(extracted[i].text, extracted[j].text)

\* the AI collaborator was unavailable, threw, or sent unparsable output
AiFailed == aiOutcome \in {"unavailable", "threw", "unparsable"}

\* C15 as stated: when the collaborator fails in hybrid mode, extractClaims
\* returns exactly the heuristic claims
C15_HeuristicOnly ==
  AiFailed => (extractPc = "returned" /\ extracted = heuristicClaims)

\* is sub a subsequence of seq
RECURSIVE IsSubSeq(_, _)
IsSubSeq(sub, seq) ==
  IF sub = <<>> THEN TRUE
  ELSE IF seq = <<>> THEN FALSE
  ELSE IF Head(sub) = Head(seq) THEN IsSubSeq(Tail(sub), Tail(seq))
  ELSE IsSubSeq(sub, Tail(seq))

\* C15, amended: when the collaborator fails in hybrid mode, extractClaims
\* still resolves, with heuristic claims only and in their order; v1 returns
\* all of them; v2 returns at most 20 and, unless it returns 20, one claim for
\* every heuristic claim that is the claim itself or a near-duplicate of it;
\* the result is empty only if there are no heuristic claims
C15_HeuristicSurvives ==
  AiFailed =>
    /\ extractPc = "returned"
    /\ IsSubSeq(extracted, heuristicClaims)
    /\ heuristicClaims # <<>> => extracted # <<>>
    /\ extractorRev = "v1" => extracted = heuristicClaims
    /\ extractorRev = "v2" =>
         /\ Len(extracted) <= 20
         /\ \/ Len(extracted) = 20
            \/ \A i \in 1..Len(heuristicClaims) :
                 \E j \in 1..Len(extracted) :
                   \/ extracted[j] = heuristicClaims[i]
                   \/ Similar(extracted[j].text, heuristicClaims[i].text)

\* v2 with 21 heuristic claims and a failed collaborator returned the top 20
C15_Witness ==
  /\ AiFailed
  /\ extractorRev = "v2"
  /\ Len(heuristicClaims) = 21
  /\ Len(extracted) = 20

\* the document is empty, shorter than the shortest claim, or not a string
MalformedDocument ==
  \/ documentType # "string"
  \/ TextLength(article) < min_claim_length(extractorRev)

\* C23: extractClaims called with an empty, too-short or non-string document
\* yields an empty claim list and neither throws nor rejects.
C23_MalformedYieldsNothing ==
  MalformedDocument =>
    /\ extractPc # "rejected"
    /\ extractPc = "returned" => extracted = <<>>

-----------------------------------------------------------------------------
(* Override engine: OverrideEngine.checkOverride *)

\* the relevance (in tenths) of a match extractMatchesFromSearch keeps: relevance > 0.5
Relevances == {6, 8, 9}

\* a match found in an authoritative source; its position in exactMatches stands for its url
Match(relevance) == [relevance |-> relevance]

\* the validation object (confidence in tenths)
Validation(valid, relationship, confidence) ==
  [override_valid |-> valid, relationship |-> relationship, confidence |-> confidence]

\* what validateOverride reads as a validation when the response is a string
\* in response.content: every field is undefined
NoValidation == Validation(FALSE, "undefined", Absent)

\* what the AI client's query does for the validation prompt: it throws, it
\* resolves with text that is not JSON, or with the JSON object asked for
AiResponse(kind, value) == [kind |-> kind, value |-> value]

AiValidations ==
  {AiResponse("throws", NoValidation), AiResponse("text", NoValidation)} \cup
  {AiResponse("json", v) :
     v \in {Validation(FALSE, "tangential", 9), Validation(TRUE, "supports", 5),
            Validation(TRUE, "contradicts", 9), Validation(TRUE, "supports", 9)}}

\* validateOverride: the parsed response, or the fallback computed from match.relevance
validateOverride(match, response) ==
  CASE response.kind = "throws" ->
         Validation(match.relevance > 7,
                    IF match.relevance > 8 THEN "supports" ELSE "tangential",
                    match.relevance)
    [] response.kind = "text" -> NoValidation
    [] OTHER -> response.value

\* validOverrides.push({...})
ValidOverride(url, validation) ==
  [url |-> url, relationship |-> validation.relationship, confidence |-> validation.confidence]

RECURSIVE reduce(_, _, _)
\* Array.prototype.reduce without an initial value, from element i on
reduce(callback(_, _), array, i) ==
  IF i = 1 THEN array[1]
  ELSE callback(reduce(callback, array, i - 1), array[i])

\* a selection that keeps the first valid override whatever its confidence
bestOverride_First(overrides) ==
  overrides[1]

\* validOverrides.reduce((best, current) => current.confidence > best.confidence ? current : best)
bestOverride(overrides) ==
  LET pick(best, current) == IF current.confidence > best.confidence THEN current ELSE best
  IN reduce(pick, overrides, Len(overrides))

\* the object checkOverride returns for the selected override
AuthoritativeOverride(best) ==
  [score |-> calculateOverrideScore(best.relationship), confidence |-> "high",
   url |-> best.url, relationship |-> best.relationship]

\* the match lists findExactMatches can resolve with
MatchLists == UNION {[1..n -> {Match(r) : r \in Relevances}] : n \in 0..MaxMatches}

OverrideInit ==
  /\ IdleExcept("override")
  /\ OverrideIdle

\* checkOverride up to the loop: findExactMatches, return null without matches
CheckOverrideCall ==
  /\ overridePc = "idle"
  /\ \E found \in MatchLists :
       /\ exactMatches' = found
       /\ IF Len(found) = 0
          THEN /\ overridePc' = "returned"
               /\ matchIndex' = 0
          ELSE /\ overridePc' = "validating"
               /\ matchIndex' = 1
  /\ overrideReturned' = NoOverride
  /\ UNCHANGED <<nonOverrideVars, validations, validOverrides>>

\* one iteration of the loop: await validateOverride, push when override_valid
ValidateOverride ==
  /\ overridePc = "validating"
  /\ matchIndex <= Len(exactMatches)
  /\ \E response \in AiValidations :
       LET validation == validateOverride(exactMatches[matchIndex], response)
       IN /\ validations' = Append(validations, validation)
          /\ validOverrides' = IF validation.override_valid
                               THEN Append(validOverrides, ValidOverride(matchIndex, validation))
                               ELSE validOverrides
  /\ matchIndex' = matchIndex + 1
  /\ UNCHANGED <<nonOverrideVars, overridePc, exactMatches, overrideReturned>>

\* after the loop: null without a valid override, else the best one
SelectOverride ==
  /\ overridePc = "validating"
  /\ matchIndex > Len(exactMatches)
  /\ overridePc' = "returned"
  /\ overrideReturned' = IF Len(validOverrides) = 0
                         THEN NoOverride
                         ELSE AuthoritativeOverride(bestOverride(validOverrides))
  /\ UNCHANGED <<nonOverrideVars, exactMatches, matchIndex, validations, validOverrides>>

OverrideNext ==
  \/ CheckOverrideCall
  \/ ValidateOverride
  \/ SelectOverride

OverrideSpec == OverrideInit /\ [][OverrideNext]_vars

-----------------------------------------------------------------------------
(* Properties of the override engine *)

\* the matches that were validated as a valid override
Validated == {i \in 1..Len(validations) : validations[i].override_valid}

\* C16: checkOverride returns null when no match was validated as a valid
\* override; otherwise what it returns is built from a valid override whose
\* confidence no other validated match exceeds.
C16_BestValidOverride ==
  overridePc = "returned" =>
    IF Validated = {}
    THEN overrideReturned = NoOverride
    ELSE \E i \in Validated :
           /\ \A j \in Validated : validations[j].confidence <= validations[i].confidence
           /\ overrideReturned = AuthoritativeOverride(ValidOverride(i, validations[i]))

\* the second match was selected over a valid first one
C16_Witness ==
  /\ overridePc = "returned"
  /\ Cardinality(Validated) >= 2
  /\ 1 \in Validated
  /\ overrideReturned # NoOverride
  /\ overrideReturned.url = 2

-----------------------------------------------------------------------------
(* Fact-checker router: FactCheckerRouter.checkClaim *)

\* the router of src/unnamed/part_002 queries fact-checking services; the one
\* of src/src/routers/factcheckers.js computes a credibility value instead
FactRouters == {"services", "credibility"}

\* CONFIG.apis.fact_checkers
FactCheckers ==
  << [name |-> "Google Fact Check", priority |-> 1],
     [name |-> "Snopes", priority |-> 2],
     [name |-> "FactCheck.org", priority |-> 3] >>

FactCheckerNames == {FactCheckers[i].name : i \in DOMAIN FactCheckers}

RECURSIVE FilterEnabled(_, _)
\* CONFIG.apis.fact_checkers.filter(source => source.enabled)
FilterEnabled(sources, enabledNames) ==
  IF sources = <<>> THEN <<>>
  ELSE LET rest == FilterEnabled(Tail(sources), enabledNames)
       IN IF Head(sources).name \in enabledNames THEN <<Head(sources)>> \o rest ELSE rest

RECURSIVE InsertByPriority(_, _)
InsertByPriority(sorted, source) ==
  IF sorted = <<>> THEN <<source>>
  ELSE IF source.priority < Head(sorted).priority
       THEN <<source>> \o sorted
       ELSE <<Head(sorted)>> \o InsertByPriority(Tail(sorted), source)

RECURSIVE sortByPriority(_)
\* this.sources.sort((a, b) => a.priority - b.priority)
sortByPriority(sources) ==
  IF sources = <<>> THEN <<>>
  ELSE InsertByPriority(sortByPriority(SubSeq(sources, 1, Len(sources) - 1)),
                        sources[Len(sources)])

GoogleVerdictMap ==
  [r \in {"True", "Mostly True", "Half True", "Mostly False", "False", "Pants on Fire"} |->
     CASE r = "True" -> 10
       [] r = "Mostly True" -> 8
       [] r = "Half True" -> 5
       [] r = "Mostly False" -> 3
       [] r = "False" -> 1
       [] r = "Pants on Fire" -> 0]

SnopesVerdictMap ==
  [r \in {"true", "mostly-true", "mixture", "mostly-false", "false", "outdated", "unproven"} |->
     CASE r = "true" -> 10
       [] r = "mostly-true" -> 8
       [] r = "mixture" -> 5
       [] r = "mostly-false" -> 3
       [] r = "false" -> 1
       [] r = "outdated" -> 4
       [] r = "unproven" -> 5]

FactCheckOrgVerdictMap ==
  [r \in {"correct", "mostly-correct", "partial", "mostly-incorrect", "incorrect", "unsupported"} |->
     CASE r = "correct" -> 10
       [] r = "mostly-correct" -> 8
       [] r = "partial" -> 5
       [] r = "mostly-incorrect" -> 3
       [] r = "incorrect" -> 1
       [] r = "unsupported" -> 2]

\* verdictMap[rating]: undefined for a rating that is not a key
Lookup(verdictMap, rating) ==
  IF rating \in DOMAIN verdictMap THEN verdictMap[rating] ELSE Absent

\* x || 5 on a number or undefined: 0 is falsy
OrFive(x) == IF x = Absent \/ x = 0 THEN 5 ELSE x

mapGoogleVerdict(rating) == OrFive(Lookup(GoogleVerdictMap, rating))

mapSnopesVerdict(rating) == OrFive(Lookup(SnopesVerdictMap, rating))

mapFactCheckOrgVerdict(verdict) == OrFive(Lookup(FactCheckOrgVerdictMap, verdict))

\* a rating outside every vocabulary
Unrated == "Unrated"

\* the ratings a service's response can carry
Ratings(name) ==
  {Unrated} \cup
  CASE name = "Google Fact Check" -> DOMAIN GoogleVerdictMap
    [] name = "Snopes" -> DOMAIN SnopesVerdictMap
    [] OTHER -> DOMAIN FactCheckOrgVerdictMap

\* the verdict queryGoogleFactCheck, querySnopes and queryFactCheckOrg put in their result
VerdictOf(name, rating) ==
  CASE name = "Google Fact Check" -> mapGoogleVerdict(rating)
    [] name = "Snopes" -> mapSnopesVerdict(rating)
    [] OTHER -> mapFactCheckOrgVerdict(rating)

\* checkSourceCredibility: Math.min(10, 5 + 2 for https + 2 for a publication
\* date on the page + estimateDomainAge), for the https urls of the three
\* configured services, whose hostnames estimateDomainAge rates 1
CredibilityVerdicts == {8, 10}

\* a result object of querySource
FactCheckResult(name, verdict) == [kind |-> "hit", verdict |-> verdict, source |-> name]

\* an entry of the history: what trying a service gave
Tried(name, gave, rating) == [source |-> name, outcome |-> gave, rating |-> rating]

FactCheckInit ==
  /\ IdleExcept("factCheck")
  /\ factRouter \in FactRouters
  /\ \E enabledNames \in SUBSET FactCheckerNames :
       factSources = sortByPriority(FilterEnabled(FactCheckers, enabledNames))
  /\ factPc = "idle"
  /\ factIndex = 0
  /\ factPending = NoFactCheck
  /\ factTried = <<>>
  /\ factReturned = NoFactCheck
  /\ factScore = SourceScore(0, FALSE, FALSE, "undefined", FALSE)

\* the source of the current iteration
CurrentSource == factSources[factIndex].name

\* scoreFromFactCheckers calls checkClaim: the loop starts
CheckClaimCall ==
  /\ factPc = "idle"
  /\ factPc' = "cacheGet"
  /\ factIndex' = 1
  /\ UNCHANGED <<nonFactCheckVars, factRouter, factSources, factPending, factTried,
                 factReturned, factScore>>

\* cache.get finds a live entry of the source: its promise is never settled
\* (see ConcurrentGetLive), so checkClaim stays at the await
FactCacheHit ==
  /\ factPc = "cacheGet"
  /\ factIndex <= Len(factSources)
  /\ factTried' = Append(factTried, Tried(CurrentSource, "cached", "none"))
  /\ factPc' = "hung"
  /\ UNCHANGED <<nonFactCheckVars, factRouter, factSources, factIndex, factPending,
                 factReturned, factScore>>

\* cache.get resolves with null: querySource is called
FactCacheMiss ==
  /\ factPc = "cacheGet"
  /\ factIndex <= Len(factSources)
  /\ factPc' = "querying"
  /\ UNCHANGED <<nonFactCheckVars, factRouter, factSources, factIndex, factPending,
                 factTried, factReturned, factScore>>

\* cache.get rejects: the catch block goes on to the next source
FactCacheGetRejects ==
  /\ factPc = "cacheGet"
  /\ factIndex <= Len(factSources)
  /\ factTried' = Append(factTried, Tried(CurrentSource, "cacheFailed", "none"))
  /\ factIndex' = factIndex + 1
  /\ UNCHANGED <<nonFactCheckVars, factRouter, factSources, factPc, factPending,
                 factReturned, factScore>>

\* querySource resolves with a result: cache.set is awaited
QuerySourceHit ==
  /\ factPc = "querying"
  /\ \/ /\ factRouter = "services"
        /\ \E rating \in Ratings(CurrentSource) :
             /\ factPending' = FactCheckResult(CurrentSource, VerdictOf(CurrentSource, rating))
             /\ factTried' = Append(factTried, Tried(CurrentSource, "hit", rating))
     \/ /\ factRouter = "credibility"
        /\ \E verdict \in CredibilityVerdicts :
             /\ factPending' = FactCheckResult(CurrentSource, verdict)
             /\ factTried' = Append(factTried, Tried(CurrentSource, "hit", "none"))
  /\ factPc' = "cacheSet"
  /\ UNCHANGED <<nonFactCheckVars, factRouter, factSources, factIndex, factReturned, factScore>>

\* querySource resolves with null (no claim review in the response): next source
QuerySourceNull ==
  /\ factPc = "querying"
  /\ factRouter = "services"
  /\ factTried' = Append(factTried, Tried(CurrentSource, "none", "none"))
  /\ factIndex' = factIndex + 1
  /\ factPc' = "cacheGet"
  /\ UNCHANGED <<nonFactCheckVars, factRouter, factSources, factPending, factReturned, factScore>>

\* querySource rejects: the catch block goes on to the next source
QuerySourceThrows ==
  /\ factPc = "querying"
  /\ factTried' = Append(factTried, Tried(CurrentSource, "threw", "none"))
  /\ factIndex' = factIndex + 1
  /\ factPc' = "cacheGet"
  /\ UNCHANGED <<nonFactCheckVars, factRouter, factSources, factPending, factReturned, factScore>>

\* cache.set resolves: the result is returned
FactCacheSetResolves ==
  /\ factPc = "cacheSet"
  /\ factReturned' = factPending
  /\ factPc' = "returned"
  /\ UNCHANGED <<nonFactCheckVars, factRouter, factSources, factIndex, factPending,
                 factTried, factScore>>

\* cache.set rejects inside the try block: the catch block goes on to the next source
FactCacheSetRejects ==
  /\ factPc = "cacheSet"
  /\ factPending' = NoFactCheck
  /\ factIndex' = factIndex + 1
  /\ factPc' = "cacheGet"
  /\ UNCHANGED <<nonFactCheckVars, factRouter, factSources, factTried, factReturned, factScore>>

\* the loop is over: checkClaim returns null
CheckClaimReturnsNull ==
  /\ factPc = "cacheGet"
  /\ factIndex > Len(factSources)
  /\ factReturned' = NoFactCheck
  /\ factPc' = "returned"
  /\ UNCHANGED <<nonFactCheckVars, factRouter, factSources, factIndex, factPending,
                 factTried, factScore>>

\* scoreFromFactCheckers writes scores.fact_checker from what checkClaim returned
ScoreFromFactCheckersSettles ==
  /\ factPc = "returned"
  /\ factScore' = scoreFromFactCheckers(factReturned)
  /\ factPc' = "scored"
  /\ UNCHANGED <<nonFactCheckVars, factRouter, factSources, factIndex, factPending,
                 factTried, factReturned>>

FactCheckNext ==
  \/ CheckClaimCall
  \/ FactCacheHit
  \/ FactCacheMiss
  \/ FactCacheGetRejects
  \/ QuerySourceHit
  \/ QuerySourceNull
  \/ QuerySourceThrows
  \/ FactCacheSetResolves
  \/ FactCacheSetRejects
  \/ CheckClaimReturnsNull
  \/ ScoreFromFactCheckersSettles

FactCheckSpec == FactCheckInit /\ [][FactCheckNext]_vars

-----------------------------------------------------------------------------
(* Properties of the fact-checker router *)

\* C17: the enabled services are tried in ascending priority, nothing is
\* tried after a service gave a hit, and without a hit the component's
\* SourceScore is neutral (5, low).
C17_PriorityOrder ==
  /\ \A k \in 1..Len(factTried) :
       /\ k <= Len(factSources)
       /\ factTried[k].source = factSources[k].name
  /\ \A k \in 1..(Len(factSources) - 1) : factSources[k].priority < factSources[k + 1].priority
  /\ \A k \in 1..(Len(factTried) - 1) : factTried[k].outcome # "hit"
  /\ factPc = "querying" => \A k \in 1..Len(factTried) : factTried[k].outcome # "hit"
  /\ (factPc = "scored" /\ \A k \in 1..Len(factTried) : factTried[k].outcome # "hit")
       => factScore = Reported(5, "low")

\* C18: a hit rated "True" contributes the score 10 and a hit rated
\* "Pants on Fire" contributes the score 0.
C18_VerdictScale ==
  (factPc = "scored" /\ factReturned.kind = "hit" /\ factTried[Len(factTried)].outcome = "hit") =>
    LET rating == factTried[Len(factTried)].rating
    IN /\ rating = "True" => factScore.score = 10
       /\ rating = "Pants on Fire" => factScore.score = 0

-----------------------------------------------------------------------------
(* Scorer.scoreClaim under concurrent callers, with Cache.get and Cache.set *)

\* the results two scoreClaim calls for the same claim can compute: their
\* adapters may answer differently (and their timestamps differ)
ConcurrentResults ==
  {[final |-> 7, confidence |-> "medium"], [final |-> 5, confidence |-> "low"]}

\* the entry Cache.set puts: the JSON text of the value, expiring ttlHours later
Entry(value) == [value |-> value, expired |-> FALSE]

\* an entry left by an earlier analysis whose expiry time has passed
StaleEntry == [value |-> [final |-> 7, confidence |-> "medium"], expired |-> TRUE]

ConcurrentInit ==
  /\ IdleExcept("concurrent")
  /\ cacheEntry \in {NoEntry, StaleEntry}
  /\ callerPc = [c \in Callers |-> "idle"]
  /\ callerResult = [c \in Callers |-> NoScores]
  /\ written = {}

\* a caller invokes scoreClaim: it runs up to `await cache.get(cacheKey)`
ConcurrentScoreClaimCall(c) ==
  /\ callerPc[c] = "idle"
  /\ callerPc' = [callerPc EXCEPT ![c] = "cacheGet"]
  /\ UNCHANGED <<nonConcurrentVars, cacheEntry, callerResult, written>>

\* Cache.get: store.get finds no entry, the promise resolves with null
ConcurrentGetNull(c) ==
  /\ callerPc[c] = "cacheGet"
  /\ cacheEntry = NoEntry
  /\ callerPc' = [callerPc EXCEPT ![c] = "scoring"]
  /\ UNCHANGED <<nonConcurrentVars, cacheEntry, callerResult, written>>

\* Cache.get: the entry has expired, it is deleted and the promise resolves with null
ConcurrentGetExpired(c) ==
  /\ callerPc[c] = "cacheGet"
  /\ cacheEntry # NoEntry
  /\ cacheEntry.expired
  /\ cacheEntry' = NoEntry
  /\ callerPc' = [callerPc EXCEPT ![c] = "scoring"]
  /\ UNCHANGED <<nonConcurrentVars, callerResult, written>>

\* Cache.get: the entry is live.  The success handler updates entry.accessed
\* with store.put(entry) on the store of the transaction it opened as
\* 'readonly'; IndexedDB makes put throw ReadOnlyError there, inside the
\* handler and before resolve(value) is reached, so the promise of cache.get
\* is never settled and the caller's await never resumes.
ConcurrentGetLive(c) ==
  /\ callerPc[c] = "cacheGet"
  /\ cacheEntry # NoEntry
  /\ ~cacheEntry.expired
  /\ callerPc' = [callerPc EXCEPT ![c] = "hung"]
  /\ UNCHANGED <<nonConcurrentVars, cacheEntry, callerResult, written>>

\* Cache.get: the request fails, the promise rejects and so does scoreClaim
ConcurrentGetRejects(c) ==
  /\ callerPc[c] = "cacheGet"
  /\ callerPc' = [callerPc EXCEPT ![c] = "rejected"]
  /\ UNCHANGED <<nonConcurrentVars, cacheEntry, callerResult, written>>

\* Promise.allSettled resolves and the result is built: `await cache.set`
ConcurrentScoringSettles(c) ==
  /\ callerPc[c] = "scoring"
  /\ \E computed \in ConcurrentResults :
       callerResult' = [callerResult EXCEPT ![c] = computed]
  /\ callerPc' = [callerPc EXCEPT ![c] = "cacheSet"]
  /\ UNCHANGED <<nonConcurrentVars, cacheEntry, written>>

\* Cache.set: store.put replaces the entry in one readwrite transaction, and
\* scoreClaim returns the result
ConcurrentSetResolves(c) ==
  /\ callerPc[c] = "cacheSet"
  /\ cacheEntry' = Entry(callerResult[c])
  /\ written' = written \cup {callerResult[c]}
  /\ callerPc' = [callerPc EXCEPT ![c] = "returned"]
  /\ UNCHANGED <<nonConcurrentVars, callerResult>>

\* Cache.set: the put fails, the promise rejects and so does scoreClaim
ConcurrentSetRejects(c) ==
  /\ callerPc[c] = "cacheSet"
  /\ callerPc' = [callerPc EXCEPT ![c] = "rejected"]
  /\ UNCHANGED <<nonConcurrentVars, cacheEntry, callerResult, written>>

\* time passes the expiry of the entry (Date.now() > entry.expires from now on)
EntryExpires ==
  /\ cacheEntry # NoEntry
  /\ ~cacheEntry.expired
  /\ cacheEntry' = [cacheEntry EXCEPT !.expired = TRUE]
  /\ UNCHANGED <<nonConcurrentVars, callerPc, callerResult, written>>

ConcurrentNext ==
  \/ EntryExpires
  \/ \E c \in Callers :
       \/ ConcurrentScoreClaimCall(c)
       \/ ConcurrentGetNull(c)
       \/ ConcurrentGetExpired(c)
       \/ ConcurrentGetLive(c)
       \/ ConcurrentGetRejects(c)
       \/ ConcurrentScoringSettles(c)
       \/ ConcurrentSetResolves(c)
       \/ ConcurrentSetRejects(c)

ConcurrentSpec == ConcurrentInit /\ [][ConcurrentNext]_vars

-----------------------------------------------------------------------------
(* Properties of concurrent scoring *)

\* C20: when two callers score the same claim concurrently, neither call
\* fails or is left unable to complete, and once both have completed each
\* holds a valid result and the cache entry holds one of the results that
\* were written.
C20_ConcurrentScoring ==
  /\ \A c \in Callers : callerPc[c] \notin {"rejected", "hung"}
  /\ (\A c \in Callers : callerPc[c] = "returned") =>
       /\ \A c \in Callers : callerResult[c] \in ConcurrentResults
       /\ cacheEntry # NoEntry
       /\ cacheEntry.value \in written

-----------------------------------------------------------------------------
(* Claim normalizer: ClaimNormalizer.normalize *)

\* A text is the sequence of its whitespace-separated tokens; a token is a
\* word (lower-case spelling, "" for none), whether its first letter is a
\* capital, and whether a punctuation mark such as "." or "!" follows it.
Token(word, cap, punct) == [word |-> word, cap |-> cap, punct |-> punct]

\* the words of the claims: a filler word, a plain word, a scientific term,
\* a number, and no word (a token that is a punctuation mark only)
Vocabulary == {"the", "earth", "vaccine", "4", ""}

Tokens ==
  {t \in [word : Vocabulary, cap : BOOLEAN, punct : BOOLEAN] :
     /\ t.word \in {"4", ""} => ~t.cap
     /\ t.word = "" => t.punct}

MaxTokens == 2

ClaimTexts == UNION {[1..n -> Tokens] : n \in 0..MaxTokens}

fillerWords ==
  {"the", "a", "an", "and", "or", "but", "in", "on", "at", "to", "for", "of",
   "with", "by"}

scientificTerms ==
  {"vaccine", "virus", "covid", "coronavirus", "pandemic", "epidemic",
   "clinical", "trial", "study", "research"}

\* claim.toLowerCase()
lowerCase(text) == [i \in 1..Len(text) |-> [text[i] EXCEPT !.cap = FALSE]]

\* simplified.replace(/\bword\b/g, '') for every filler word
removeFillers(text) ==
  [i \in 1..Len(text) |->
     IF text[i].word \in fillerWords /\ ~text[i].cap
     THEN [text[i] EXCEPT !.word = ""] ELSE text[i]]

\* simplified.replace(/\s+/g, ' ').trim(): the tokens that are left
RECURSIVE collapseWhitespace(_)
collapseWhitespace(text) ==
  IF text = <<>> THEN <<>>
  ELSE IF Head(text).word = "" /\ ~Head(text).punct
       THEN collapseWhitespace(Tail(text))
       ELSE <<Head(text)>> \o collapseWhitespace(Tail(text))

\* simplified.replace(/[^\w\s\-+%$]/g, ''): the marks go, the blanks between
\* the tokens stay
removePunctuation(text) ==
  [i \in 1..Len(text) |-> [text[i] EXCEPT !.punct = FALSE]]

simplifyClaim(claim) ==
  removePunctuation(collapseWhitespace(removeFillers(lowerCase(claim))))

\* the number of characters of a text, a word counting for one and a mark
\* for one, with one blank between two tokens
StringLength(text) ==
  LET chars(t) == (IF t.word = "" THEN 0 ELSE 1) + (IF t.punct THEN 1 ELSE 0)
      RECURSIVE sum(_)
      sum(i) == IF i = 0 THEN 0 ELSE chars(text[i]) + sum(i - 1)
  IN  sum(Len(text)) + (IF Len(text) = 0 THEN 0 ELSE Len(text) - 1)

\* the number of entities extractEntities pushes: numbers, capitalized words
\* other than the capitalized filler words, scientific terms
extractEntities(claim) ==
  Cardinality({i \in 1..Len(claim) : claim[i].word = "4"})
  + Cardinality({i \in 1..Len(claim) :
                   claim[i].cap /\ claim[i].word \notin fillerWords})
  + Cardinality({i \in 1..Len(claim) : claim[i].word \in scientificTerms})

normalizeHeuristic(claim) ==
  [original_claim |-> claim,
   normalized_claim |-> simplifyClaim(claim),
   entities |-> extractEntities(claim),
   confidence |-> IF extractEntities(claim) > 0 THEN 8 ELSE 5,
   ai_generated |-> FALSE]

\* what `await this.aiClient.query(prompt, ...)` gives normalizeAI: a response
\* with a content object, one with a raw_response text only, one with
\* neither, or a rejection; normalized_claim and confidence are the fields
\* of the object (<<>> and 0 when the service left them out)
AiNormalization(kind, normalized_claim, confidence) ==
  [kind |-> kind, normalized_claim |-> normalized_claim, confidence |-> confidence]

AiNormalizations ==
  {AiNormalization(k, n, c) :
     k \in {"content", "raw"},
     n \in {<<>>, <<Token("earth", FALSE, FALSE)>>},
     c \in {0, 9}}
  \cup {AiNormalization(k, <<>>, 0) : k \in {"unparsable", "neither", "throws"}}

\* x || y on a string
OrText(x, y) == IF x = <<>> THEN y ELSE x

normalizeAI(claim, response) ==
  CASE response.kind = "content" ->
         [original_claim |-> claim,
          normalized_claim |-> OrText(response.normalized_claim, simplifyClaim(claim)),
          entities |-> extractEntities(claim),
          confidence |-> IF response.confidence = 0 THEN 7 ELSE response.confidence,
          ai_generated |-> TRUE]
    [] response.kind = "raw" ->
         [original_claim |-> claim,
          normalized_claim |-> OrText(response.normalized_claim, simplifyClaim(claim)),
          entities |-> extractEntities(claim),
          confidence |-> 7,
          ai_generated |-> TRUE]
    [] OTHER -> normalizeHeuristic(claim)

\* { ...heuristicResult, ...aiResult, entities: [...new Set([...])],
\* confidence: Math.max(...) }: the entities are objects, a Set keeps them all
combinedResult(heuristic, ai) ==
  [ai EXCEPT !.entities = heuristic.entities + ai.entities,
             !.confidence = Max(heuristic.confidence,
                                IF ai.confidence = 0 THEN 5 ELSE ai.confidence)]

NormalizeInit ==
  /\ IdleExcept("normalize")
  /\ normalizePc = "idle"
  /\ normalizeArg \in ClaimTexts
  /\ normalizeCache = NoNormalized
  /\ heuristicResult = NoNormalized
  /\ normalized = NoNormalized

\* normalize(claim) is called: it runs up to `await cache.get(cacheKey)`
NormalizeCall ==
  /\ normalizePc \in {"idle", "returned", "rejected"}
  /\ normalizePc' = "cacheGet"
  /\ heuristicResult' = NoNormalized
  /\ normalized' = NoNormalized
  /\ UNCHANGED <<nonNormalizeVars, normalizeArg, normalizeCache>>

\* after a null from the cache: the heuristic normalization, returned by way
\* of cache.set when it has entities, handed to normalizeAI otherwise
AfterCacheNull ==
  LET h == normalizeHeuristic(normalizeArg)
  IN  /\ heuristicResult' = h
      /\ IF h.entities > 0 /\ h.confidence > 7
         THEN normalizePc' = "cacheSet" /\ normalized' = h
         ELSE normalizePc' = "normalizeAI" /\ normalized' = NoNormalized

NormalizeCacheMiss ==
  /\ normalizePc = "cacheGet"
  /\ normalizeCache = NoNormalized
  /\ AfterCacheNull
  /\ UNCHANGED <<nonNormalizeVars, normalizeArg, normalizeCache>>

\* the entry is older than its week: Cache.get deletes it and resolves null
NormalizeCacheExpired ==
  /\ normalizePc = "cacheGet"
  /\ normalizeCache # NoNormalized
  /\ normalizeCache' = NoNormalized
  /\ AfterCacheNull
  /\ UNCHANGED <<nonNormalizeVars, normalizeArg>>

\* a live entry: Cache.get's store.put on its readonly transaction throws in
\* the success handler, the promise normalize awaits is never settled
NormalizeCacheHit ==
  /\ normalizePc = "cacheGet"
  /\ normalizeCache # NoNormalized
  /\ normalizePc' = "hung"
  /\ UNCHANGED <<nonNormalizeVars, normalizeArg, normalizeCache, heuristicResult, normalized>>

\* cache.get rejects (the database cannot be opened, the request fails)
NormalizeCacheGetRejects ==
  /\ normalizePc = "cacheGet"
  /\ normalizePc' = "rejected"
  /\ UNCHANGED <<nonNormalizeVars, normalizeArg, normalizeCache, heuristicResult, normalized>>

\* normalizeAI settles and normalize combines the two results
NormalizeAISettles(response) ==
  /\ normalizePc = "normalizeAI"
  /\ normalized' = combinedResult(heuristicResult, normalizeAI(normalizeArg, response))
  /\ normalizePc' = "cacheSet"
  /\ UNCHANGED <<nonNormalizeVars, normalizeArg, normalizeCache, heuristicResult>>

NormalizeCacheSetResolves ==
  /\ normalizePc = "cacheSet"
  /\ normalizeCache' = normalized
  /\ normalizePc' = "returned"
  /\ UNCHANGED <<nonNormalizeVars, normalizeArg, heuristicResult, normalized>>

NormalizeCacheSetRejects ==
  /\ normalizePc = "cacheSet"
  /\ normalizePc' = "rejected"
  /\ normalized' = NoNormalized
  /\ UNCHANGED <<nonNormalizeVars, normalizeArg, normalizeCache, heuristicResult>>

NormalizeNext ==
  \/ NormalizeCall
  \/ NormalizeCacheMiss
  \/ NormalizeCacheExpired
  \/ NormalizeCacheHit
  \/ NormalizeCacheGetRejects
  \/ \E response \in AiNormalizations : NormalizeAISettles(response)
  \/ NormalizeCacheSetResolves
  \/ NormalizeCacheSetRejects

NormalizeSpec == NormalizeInit /\ [][NormalizeNext]_vars

-----------------------------------------------------------------------------
(* Properties of the claim normalizer *)

\* C22: for every non-empty original claim text, the NormalizedClaim that
\* normalize returns has a non-empty normalized_claim.
C22_NonEmptyNormalized ==
  (normalizePc = "returned" /\ StringLength(normalized.original_claim) > 0)
    => StringLength(normalized.normalized_claim) > 0

-----------------------------------------------------------------------------
(* Candidate scorer: scoreClaimCandidate on a sentence and on the same
   sentence with a percentage added *)

\* lengths and word counts around the limits the scorer tests
Lengths == {14, 15, 60, 200, 296, 297, 300, 301}

WordCounts == {3, 4, 5, 29, 30, 31, 50, 51}

\* neutral sentences: no factual verb, claim marker, large number, named
\* entity, date or quotation; a sentence of w words has at least 2w - 1
\* characters
NeutralSentences ==
  {f \in [length : Lengths, wordCount : WordCounts, comma : BOOLEAN, digits : BOOLEAN,
          preposition : BOOLEAN, lowercaseStart : BOOLEAN, percentage : {FALSE}] :
     f.length >= 2 * f.wordCount - 1}

\* ClaimExtractor.analyzeStructure, in hundredths
analyzeStructure(f) ==
  LET score ==
        60
        + (IF f.wordCount >= 5 /\ f.wordCount <= 30 THEN 25
           ELSE IF f.wordCount > 30 /\ f.wordCount <= 50 THEN 15 ELSE 0)
        + (IF f.comma THEN 15 ELSE 0)
        + (IF f.digits THEN 20 ELSE 0)
        + (IF f.preposition THEN 15 ELSE 0)
        - (IF f.wordCount < 4 THEN 20 ELSE 0)
        - (IF f.lowercaseStart THEN 10 ELSE 0)
  IN  Max(0, Min(100, score))

\* the sentence as scoreClaimCandidate sees it
SentenceOf(f) ==
  Sentence(<<>>, ~f.lowercaseStart, ".", f.length, 0, 0,
           IF f.percentage THEN {"percentage"} ELSE {}, analyzeStructure(f))

\* the sentence with "85%" added as a word of its own, in front or further
\* on: four characters and one word more, a digit, a match of /\d+%/
WithPercentage(f, inFront) ==
  [f EXCEPT !.length = @ + 4, !.wordCount = @ + 1, !.digits = TRUE, !.percentage = TRUE,
            !.lowercaseStart = IF inFront THEN FALSE ELSE @]

CandidateInit ==
  /\ IdleExcept("candidate")
  /\ candidatePc = "idle"
  /\ features \in NeutralSentences
  /\ confidenceBefore = 0
  /\ confidenceAfter = 0

\* scoreClaimCandidate(sentence)
ScoreCandidate ==
  /\ candidatePc = "idle"
  /\ confidenceBefore' = scoreClaimCandidate(SentenceOf(features)).confidence
  /\ candidatePc' = "scored"
  /\ UNCHANGED <<nonCandidateVars, features, confidenceAfter>>

\* the percentage is written into the sentence
AddPercentage(inFront) ==
  /\ candidatePc = "scored"
  /\ features' = WithPercentage(features, inFront)
  /\ candidatePc' = "added"
  /\ UNCHANGED <<nonCandidateVars, confidenceBefore, confidenceAfter>>

\* scoreClaimCandidate(sentence with the percentage)
ScoreCandidateAgain ==
  /\ candidatePc = "added"
  /\ confidenceAfter' = scoreClaimCandidate(SentenceOf(features)).confidence
  /\ candidatePc' = "rescored"
  /\ UNCHANGED <<nonCandidateVars, features, confidenceBefore>>

CandidateNext ==
  \/ ScoreCandidate
  \/ \E inFront \in BOOLEAN : AddPercentage(inFront)
  \/ ScoreCandidateAgain

CandidateSpec == CandidateInit /\ [][CandidateNext]_vars

-----------------------------------------------------------------------------
(* Properties of the candidate scorer *)

\* C25 as stated: adding a percentage pattern to an otherwise-neutral sentence
\* never decreases the confidence scoreClaimCandidate returns.
C25_PercentageNeverLowers ==
  candidatePc = "rescored" => confidenceAfter >= confidenceBefore

\* C25: adding a percentage pattern to an otherwise-neutral sentence never
\* decreases the confidence scoreClaimCandidate returns, provided the sentence
\* with the pattern is no longer than max_claim_length.
C25_PercentageWithinLength ==
  (candidatePc = "rescored" /\ features.length <= max_claim_length("candidate"))
    => confidenceAfter >= confidenceBefore

\* a sentence of thirty words that already holds a digit got the percentage
\* within the length limit: its structure score fell, its confidence rose
C25_Witness ==
  /\ candidatePc = "rescored"
  /\ features.wordCount = 31
  /\ features.length <= max_claim_length("candidate")
  /\ confidenceBefore > 0
  /\ confidenceAfter > confidenceBefore

-----------------------------------------------------------------------------
(* AI client: queueRequest, processQueue, makeRequest *)

\* a processQueue that does not look at the flag
processQueueReturns_NoFlag(flag, queue) == queue = <<>>

\* processQueue's first line: `if (this.processing || this.requestQueue.length
\* === 0) return`
processQueueReturns(flag, queue) == flag \/ queue = <<>>

\* a processQueue that leaves the flag set
flagAfterLoop_Stuck == TRUE

\* the flag processQueue leaves behind its while loop: `this.processing = false`
flagAfterLoop == FALSE

\* the top of the while loop for the call made by request l, with the queue
\* and the requests as they are then: it ends the loop on an empty queue,
\* waits for the rest of minRequestInterval when the last request is younger
\* than that (wait), or shifts the next request at once
LoopTop(l, queue, states, wait) ==
  IF queue = <<>>
  THEN /\ processing' = flagAfterLoop
       /\ loopPc' = [loopPc EXCEPT ![l] = "returned"]
       /\ requestQueue' = queue
       /\ requestState' = states
       /\ UNCHANGED <<loopRequest, loopAttempt>>
  ELSE IF wait
  THEN /\ processing' = TRUE
       /\ loopPc' = [loopPc EXCEPT ![l] = "interval"]
       /\ requestQueue' = queue
       /\ requestState' = states
       /\ UNCHANGED <<loopRequest, loopAttempt>>
  ELSE /\ processing' = TRUE
       /\ loopPc' = [loopPc EXCEPT ![l] = "makeRequest"]
       /\ requestQueue' = Tail(queue)
       /\ requestState' = [states EXCEPT ![Head(queue)] = "inFlight"]
       /\ loopRequest' = [loopRequest EXCEPT ![l] = Head(queue)]
       /\ loopAttempt' = [loopAttempt EXCEPT ![l] = 0]

QueueInit ==
  /\ IdleExcept("queue")
  /\ requestQueue = <<>>
  /\ processing = FALSE
  /\ requestState = [r \in Requests |-> "new"]
  /\ requestRetries \in [Requests -> 0..MaxQueueRetries]
  /\ loopPc = [r \in Requests |-> "notCalled"]
  /\ loopRequest = [r \in Requests |-> 0]
  /\ loopAttempt = [r \in Requests |-> 0]

\* queueRequest(prompt, options): the request is pushed and processQueue is
\* called, which returns at once or runs up to its first await; it can have
\* to wait only when a request has been shifted before (lastRequestTime)
QueueRequest(r, wait) ==
  /\ requestState[r] = "new"
  /\ wait => \E q \in Requests : requestState[q] \in {"inFlight", "resolved", "rejected"}
  /\ LET queue == Append(requestQueue, r)
         states == [requestState EXCEPT ![r] = "queued"]
     IN  IF processQueueReturns(processing, queue)
         THEN /\ requestQueue' = queue
              /\ requestState' = states
              /\ loopPc' = [loopPc EXCEPT ![r] = "returned"]
              /\ UNCHANGED <<processing, loopRequest, loopAttempt>>
         ELSE LoopTop(r, queue, states, wait)
  /\ UNCHANGED <<nonQueueVars, requestRetries>>

\* the timer of the minimum interval fires: the loop shifts the next request;
\* on an empty queue `request.prompt` throws outside the try block and the
\* call ends with the flag still set
IntervalElapsed(l) ==
  /\ loopPc[l] = "interval"
  /\ IF requestQueue = <<>>
     THEN /\ loopPc' = [loopPc EXCEPT ![l] = "threw"]
          /\ UNCHANGED <<requestQueue, processing, requestState, loopRequest, loopAttempt>>
     ELSE LoopTop(l, requestQueue, requestState, FALSE)
  /\ UNCHANGED <<nonQueueVars, requestRetries>>

\* makeRequest: callAPI resolves and cache.set resolves, the request is
\* resolved with the response; processQueue goes on to its 200 ms delay
MakeRequestResolves(l) ==
  /\ loopPc[l] = "makeRequest"
  /\ requestState' = [requestState EXCEPT ![loopRequest[l]] = "resolved"]
  /\ loopPc' = [loopPc EXCEPT ![l] = "delay"]
  /\ UNCHANGED <<nonQueueVars, requestQueue, processing, requestRetries, loopRequest, loopAttempt>>

\* makeRequest: callAPI rejects (error status, timeout, no content) or
\* cache.set rejects; the catch block waits and tries again, or after the last
\* attempt makeRequest throws and processQueue rejects the request
MakeRequestCatches(l) ==
  /\ loopPc[l] = "makeRequest"
  /\ IF loopAttempt[l] < requestRetries[loopRequest[l]]
     THEN /\ loopAttempt' = [loopAttempt EXCEPT ![l] = @ + 1]
          /\ UNCHANGED <<requestState, loopPc>>
     ELSE /\ requestState' = [requestState EXCEPT ![loopRequest[l]] = "rejected"]
          /\ loopPc' = [loopPc EXCEPT ![l] = "delay"]
          /\ UNCHANGED loopAttempt
  /\ UNCHANGED <<nonQueueVars, requestQueue, processing, requestRetries, loopRequest>>

\* the 200 ms delay is over: back to the top of the while loop
QueueDelayElapsed(l) ==
  /\ loopPc[l] = "delay"
  /\ \E wait \in BOOLEAN : LoopTop(l, requestQueue, requestState, wait)
  /\ UNCHANGED <<nonQueueVars, requestRetries>>

QueueNext ==
  \/ \E r \in Requests, wait \in BOOLEAN : QueueRequest(r, wait)
  \/ \E l \in Requests : IntervalElapsed(l)
  \/ \E l \in Requests : MakeRequestResolves(l)
  \/ \E l \in Requests : MakeRequestCatches(l)
  \/ \E l \in Requests : QueueDelayElapsed(l)

QueueSpec == QueueInit /\ [][QueueNext]_vars

\* timers fire, and callAPI settles: its fetch is aborted after
\* options.timeout, cache.set's put request succeeds or fails
FairQueueSpec ==
  /\ QueueSpec
  /\ \A l \in Requests :
       /\ WF_vars(IntervalElapsed(l))
       /\ WF_vars(MakeRequestResolves(l) \/ MakeRequestCatches(l))
       /\ WF_vars(QueueDelayElapsed(l))

-----------------------------------------------------------------------------
(* Properties of the AI client's queue *)

\* the requests whose makeRequest is running
RequestsInFlight == {r \in Requests : requestState[r] = "inFlight"}

\* C26: the request queue has at most one request in flight at any time,
\* however many callers queue requests and whenever they do so.
C26_OneInFlight == Cardinality(RequestsInFlight) <= 1

\* one request is in flight while a second one, queued during the first, waits
C26_Witness ==
  /\ Cardinality(RequestsInFlight) = 1
  /\ requestQueue # <<>>
  /\ \E r \in Requests : requestState[r] = "queued" /\ loopPc[r] = "returned"

-----------------------------------------------------------------------------
(* Scorer.scoreClaim and the cache keys: Cache.hashString, Cache.generateKey *)

\* A text is the sequence of its UTF-16 code units: "A", "B", "a", "z".
CharCodes == {65, 66, 97}

\* a text long enough for the hash to leave the 32-bit range
LongText == <<122, 122, 122, 122, 122, 122, 122>>

ClaimStrings == UNION {[1..n -> CharCodes] : n \in 0..MaxTextLength} \cup {LongText}

\* A 32-bit integer as its two 16-bit halves.
Int32(hi, lo) == [hi |-> hi, lo |-> lo]

\* hash = ((hash << 5) - hash) + char; hash = hash & hash: 31 * hash + char
\* brought back to 32 bits
HashStep(hash, char) ==
  LET lo == 31 * hash.lo + char
      hi == 31 * hash.hi + lo \div 65536
  IN  Int32(hi % 65536, lo % 65536)

\* Math.abs of a 32-bit integer (the sign bit is the top bit of hi)
MathAbs(hash) ==
  IF hash.hi < 32768 THEN hash
  ELSE Int32(65535 - hash.hi + (IF hash.lo = 0 THEN 1 ELSE 0), (65536 - hash.lo) % 65536)

RECURSIVE HashLoop(_, _)
HashLoop(hash, str) ==
  IF str = <<>> THEN hash ELSE HashLoop(HashStep(hash, Head(str)), Tail(str))

\* Cache.hashString: toString(36) is one-to-one on the absolute value
hashString(str) == MathAbs(HashLoop(Int32(0, 0), str))

\* Cache.generateKey(type, ...parts)
generateKey(type, part) == [type |-> type, part |-> part]

\* the key scoreClaim looks up and writes
ScoreKey(text) == generateKey("scores", hashString(text))

\* the entries stored under a key
EntriesAt(key) == {e \in keyEntries : e.key = key}

KeyInit ==
  /\ IdleExcept("key")
  /\ keyPc = "idle"
  /\ keyText = NoClaimText
  /\ keyFound = NoClaimText
  /\ keyEntries = {}

\* scoreClaim(normalizedClaim) up to `await cache.get(cacheKey)`
KeyScoreClaimCall(text) ==
  /\ keyPc \in {"idle", "returned", "rejected"}
  /\ Cardinality(keyEntries) < MaxEntries
  /\ keyText' = text
  /\ keyFound' = NoClaimText
  /\ keyPc' = "cacheGet"
  /\ UNCHANGED <<nonKeyVars, keyEntries>>

\* cache.get finds no entry under the key: scoreClaim goes on to score
KeyGetNull ==
  /\ keyPc = "cacheGet"
  /\ EntriesAt(ScoreKey(keyText)) = {}
  /\ keyPc' = "scoring"
  /\ UNCHANGED <<nonKeyVars, keyText, keyFound, keyEntries>>

\* cache.get finds an expired entry under the key and deletes it
KeyGetExpired ==
  /\ keyPc = "cacheGet"
  /\ EntriesAt(ScoreKey(keyText)) # {}
  /\ keyEntries' = keyEntries \ EntriesAt(ScoreKey(keyText))
  /\ keyPc' = "scoring"
  /\ UNCHANGED <<nonKeyVars, keyText, keyFound>>

\* cache.get finds a live entry under the key (its promise is then never
\* settled, see ConcurrentGetLive)
KeyGetLive ==
  /\ keyPc = "cacheGet"
  /\ \E e \in EntriesAt(ScoreKey(keyText)) : keyFound' = e.text
  /\ keyPc' = "hung"
  /\ UNCHANGED <<nonKeyVars, keyText, keyEntries>>

\* the adapters have settled and cache.set has put the result under the key,
\* in the place of whatever was there
KeySetResolves ==
  /\ keyPc = "scoring"
  /\ keyEntries' = (keyEntries \ EntriesAt(ScoreKey(keyText)))
                     \cup {[key |-> ScoreKey(keyText), text |-> keyText]}
  /\ keyPc' = "returned"
  /\ UNCHANGED <<nonKeyVars, keyText, keyFound>>

\* cache.set rejects: scoreClaim rejects
KeySetRejects ==
  /\ keyPc = "scoring"
  /\ keyPc' = "rejected"
  /\ UNCHANGED <<nonKeyVars, keyText, keyFound, keyEntries>>

KeyNext ==
  \/ \E text \in ClaimStrings : KeyScoreClaimCall(text)
  \/ KeyGetNull
  \/ KeyGetExpired
  \/ KeyGetLive
  \/ KeySetResolves
  \/ KeySetRejects

KeySpec == KeyInit /\ [][KeyNext]_vars

-----------------------------------------------------------------------------
(* Properties of the cache keys *)

\* C29: the entry scoreClaim finds in the cache was computed for the same
\* original claim text as the one requested; two different claim texts never
\* share a cached score entry.
C29_EntryOfSameText ==
  /\ keyFound # NoClaimText => keyFound = keyText
  /\ \A e \in keyEntries : keyPc = "cacheGet" /\ e.key = ScoreKey(keyText) => e.text = keyText

====
